---- MODULE Spec2Model ----
(***************************************************************************)
(* Roll-call attendance tracker of the chatbot plugin.                     *)
(*                                                                         *)
(* The model covers the in-memory RollCallManager (channel -> *RollCall    *)
(* under one RWMutex), the chat handlers that drive it                     *)
(* (handleStartRollCall, handleEndRollCall, handleRollCallSummary,         *)
(* handleRollCallResponse) and the external ERP calls the response handler *)
(* makes between store calls.                                              *)
(*                                                                         *)
(* Every RollCallManager method holds r.mu for its whole body, so each     *)
(* method is one atomic step; SpecStore is the store alone, its five       *)
(* writing methods called in any order for any channel and user.  What a   *)
(* method returned is kept per calling goroutine (ret) until the next step *)
(* of that goroutine.  The handlers hold no lock between their             *)
(* store calls: a handler is a process whose position names the blocking   *)
(* call in flight (a store call waiting for r.mu, a chat-platform call, an *)
(* ERP call), and one step is the return of that call with the local code  *)
(* up to the next one.  What a handler reads through a *RollCall pointer   *)
(* with no lock held is read in a step of its own, so that the writes of   *)
(* other invocations fall before or after it.                              *)
(*                                                                         *)
(* EndDailyRollCall, the scheduled close of every active roll call, is a   *)
(* process of its own: it snapshots the active channels under the read     *)
(* lock, then ends each one and builds and posts its summary.              *)
(*                                                                         *)
(* CronJob is the scheduler: Start and Stop are called from any goroutine, *)
(* run is the tick loop goroutine, checkScheduledTasks compares the        *)
(* formatted time of day with the configured trigger times and fires       *)
(* StartDailyRollCall / EndDailyRollCall as goroutines of their own; its   *)
(* plugin-API calls (LogError, LogInfo) are waits, so a tick is a step up  *)
(* to the first of them and one step from each to the next.                *)
(*                                                                         *)
(* Outbound HTTP calls go through restrictedTransport: the ERP adapter     *)
(* (RecordEmployeeCheckin, RecordEmployeeCheckout, GetEmployeeByChatID)    *)
(* validates the ERP configuration, sends its requests and turns the       *)
(* answer into its error; RoundTrip lets a request through to the wrapped  *)
(* transport only when hostnameAllowed accepts its hostname.  The source   *)
(* declares the transport twice, in http_external.go and in rollup.go,     *)
(* with different hostnameAllowed and parseAllowedHostnames; a build holds *)
(* one of the two, and the model takes either whole.                       *)
(*                                                                         *)
(* handleRollCallSummary ranges over rollCall.RespondedIDs through the     *)
(* pointer GetRollCall returned, with no lock held, looks every member up  *)
(* and then reads rollCall.Active (twice), the two counts and              *)
(* ResponseCount through the pointer, each read a step of its own; a range *)
(* that meets a write of the map stops the process.  StartDailyRollCall,   *)
(* the scheduled start, ranges over channelsToPost, a list in which a      *)
(* channel can occur twice: StartRollCall, then the announcement post.     *)
(* The posts of the start and end paths are counted per session in ghost   *)
(* variables.                                                              *)
(*                                                                         *)
(* The database-backed roll calls (table LLM_RollCalls) are started by     *)
(* requests that query the active row of the channel and then insert a     *)
(* row, two statements with nothing between them that excludes another     *)
(* request; after the insert a request waits on the chat platform for the  *)
(* channel and the announcement post before it answers.                    *)
(*                                                                         *)
(* hostnameAllowed is also applied on its own to hostnames and pattern     *)
(* lists in every order, and the scheduler has a second specification with *)
(* weak fairness of the goroutines' steps for the claims about             *)
(* termination.                                                            *)
(***************************************************************************)
EXTENDS Integers, FiniteSets, Sequences, TLC

\* ---------------------------------------------------------------- bounds
NumChannels == 2        \* channel identifiers 1..NumChannels
NumUsers    == 2        \* user identifiers 1..NumUsers
NumHandlers == 2        \* concurrent handleRollCall invocations
MaxSessions == 2        \* RollCall objects allocated during a run
NumInitiators == 1      \* users who issue "start roll call": 1..NumInitiators

Channels == 1..NumChannels
Users    == 1..NumUsers
Handlers == 1..NumHandlers
Addrs    == 1..MaxSessions
Initiators == {u \in Users : u <= NumInitiators}

\* channels in which the messages of the concurrent invocations arrive
NumBusyChannels == 1
BusyChannels == {c \in Channels : c <= NumBusyChannels}

\* concurrent handleRollCallSummary invocations
NumSummaryHandlers == 1
SummaryHandlers == {h \in Handlers : h <= NumSummaryHandlers}

\* longest channelsToPost of a StartDailyRollCall run
MaxChannelsToPost == 2


\* handleRollCall invocations running beside EndDailyRollCall
NumDailyHandlers == 1
DailyHandlers == {h \in Handlers : h <= NumDailyHandlers}

\* users who respond while the end command races EndDailyRollCall
NumDailyEndUsers == 1
DailyEndUsers == {u \in Users : u <= NumDailyEndUsers}

\* the database-backed roll calls
NumRequests == 2        \* concurrent start requests (HTTP or tool)
MaxRows     == 3        \* rows inserted into LLM_RollCalls during a run
Requests == 1..NumRequests
RowIDs   == 1..MaxRows

\* saturation value of the ghost call counters
Many == 2

\* the scheduler
NumCallers == 2         \* goroutines calling CronJob.Start / CronJob.Stop
MaxLoops   == 2         \* CronJob.run goroutines alive at once
MaxJobs    == 2         \* fired goroutines of one action counted: MaxJobs stands for MaxJobs or more

Callers == 1..NumCallers
Loops   == 1..MaxLoops

\* clock readings and configured trigger times
Hours   == {8, 9, 17}
Minutes == {0, 30}
Seconds == {0, 15}

\* ---------------------------------------------------------------- values
\* error values returned by the RollCallManager methods
ErrNil           == "nil"
ErrAlreadyActive == "a roll call is already active in this channel"
ErrNoActive      == "no active roll call in this channel"
ErrNoRollCall    == "no roll call in this channel"

\* nil *RollCall / absent map entry
NilAddr == 0

\* absent entry of the activeRollCalls map
NoEntry == [ Addr |-> NilAddr ]

VARIABLES
    activeRollCalls,  \* RollCallManager.activeRollCalls: channel -> RollCall object (NoEntry = no entry)
    detached,         \* RollCall objects dropped from the map while still Active or still read through a pointer
    clock,            \* readings of time.Now() so far; also the number of objects allocated
    ret,              \* of each goroutine: what the RollCallManager call of its latest step returned
    pc,               \* handleRollCall: position of each invocation
    hChannel,         \* handleRollCall: channel.Id
    hUser,            \* handleRollCallResponse: user.Id; handleRollCallSummary: userID of the loop
    hRollCall,        \* address returned by StartRollCall, EndRollCall, GetRollCall or RespondToRollCall
    hPost,            \* the post the invocation has built and is sending
    hSummary,         \* handleRollCallSummary: the members loop (keys to produce, keys produced, recorded, respondedMembers) and durationStr, status, checkinCount, checkoutCount
    responded,        \* ghost: (session, user) with a RespondToRollCall call that returned no error
    newResponses,     \* ghost: calls per (session, user) that returned isNewResponse = true, saturating
    checkinCalls,     \* ghost: RecordEmployeeCheckin calls per (session responded in, user), saturating
    checkinOK,        \* ghost: (session, user) with a successful RecordEmployeeCheckin call
    mu,               \* RollCallManager.mu: the goroutine holding it for writing, the ones holding it for reading
    dpc,              \* EndDailyRollCall: position
    dActive,          \* EndDailyRollCall: activeChannels not yet ended
    dChannel,         \* EndDailyRollCall: channelID of the loop
    dRollCall,        \* EndDailyRollCall: rollCall returned by EndRollCall (fields fixed once closed)
    dPending,         \* EndDailyRollCall: keys of rollCall.RespondedIDs not yet ranged over
    dUser,            \* EndDailyRollCall: userID of the inner loop
    dCheckin,         \* EndDailyRollCall: result of IsUserERPRecorded for userID
    dMembers,         \* EndDailyRollCall: respondedMembers, each name with its status marks
    dSeen,            \* ghost: RollCall objects allocated when EndDailyRollCall collected activeChannels
    isRunning,        \* CronJob.isRunning
    cpc,              \* position of each goroutine calling CronJob.Start or CronJob.Stop
    loop,             \* the CronJob.run goroutines: "none", or where the goroutine is
    jobs,             \* fired StartDailyRollCall / EndDailyRollCall goroutines still running
    currentTimeStr,   \* of each run goroutine: the local of checkScheduledTasks
    cfg,              \* plugin configuration: AutoStartRollCallTime, AutoCheckoutTime
    lastCall,         \* ghost: the Start or Stop call that returned most recently
    tick,             \* ghost: whether the most recent checkScheduledTasks call got a time or an error
    produced,         \* ghost: ticks per action whose "HH:MM:00" string was the action's trigger time, saturating
    fired,            \* ghost: `go` statements executed per action, saturating
    erpCfg,           \* plugin configuration: RollCall.ERPDomain, ERPAPIKey, ERPAPISecret, AllowedUpstreamHostnames
    epc,              \* outbound call: position
    eOp,              \* outbound call: the function that makes it
    eReq,             \* outbound call: the *http.Request handed to client.Do
    eAllowed,         \* restrictedTransport.allowedHosts of the client of the call
    eResp,            \* outbound call: what the wrapped transport gave back
    eErr,             \* outbound call: the error the function returned
    eWrapped,         \* ghost: the wrapped transport was invoked during the call
    eMarked,          \* ghost: the caller marked the person as synced after the call
    eTime,            \* ERP adapter: formattedTime
    eAttempt,         \* GetEmployeeByChatID: i + 1 of the `for i, testURL := range urls` loop (0: no loop)
    revision,         \* the file whose restrictedTransport code is built in: "http_external.go" or "rollup.go"
    eClock,           \* ghost: the clock reading and the GetVietnamTime failures of the ERP adapter call
    apc,              \* StartDailyRollCall: position
    aChannels,        \* StartDailyRollCall: the rest of channelsToPost, in order
    aChannel,         \* StartDailyRollCall: channelID of the loop
    rollCallRows,     \* table LLM_RollCalls: the rows, each with ID, ChannelID and Status
    qpc,              \* database-backed start request: position of each request
    qChannel,         \* database-backed start request: req.ChannelID / context.Channel.Id
    qTool,            \* database-backed start request: TRUE for toolResolveStartRollCall, FALSE for the HTTP handler
    qAnswer,          \* ghost: what each request slot answered most recently
    match,            \* hostnameAllowed: the most recent call with its arguments and its result
    announcements,    \* ghost: posts of a start announcement made while the session was its channel's, saturating
    summaries         \* ghost: posts of an end summary made for the session, saturating

storeVars == <<activeRollCalls, detached, clock>>
procVars  == <<pc, hChannel, hUser, hRollCall, hPost, hSummary>>
ghostVars == <<responded, newResponses, checkinCalls, checkinOK, announcements, summaries>>
dailyVars == <<dpc, dActive, dChannel, dRollCall, dPending, dUser, dCheckin, dMembers, dSeen>>
cronVars  == <<isRunning, cpc, loop, jobs, currentTimeStr, cfg, lastCall, tick, produced, fired>>
erpVars   == <<erpCfg, revision, epc, eOp, eReq, eAllowed, eResp, eErr, eWrapped, eMarked, eTime, eClock, eAttempt>>
startVars == <<apc, aChannels, aChannel>>
dbVars == <<rollCallRows, qpc, qChannel, qTool, qAnswer>>
matchVars == <<match>>
\* what the roll call store and its users never touch
outsideStore == <<cronVars, erpVars, startVars, dbVars, matchVars>>
\* what the chat handlers never touch
outsideHandlers == <<dailyVars, outsideStore>>
vars      == <<activeRollCalls, detached, clock, ret, pc, hChannel, hUser, hRollCall, hPost, hSummary,
               responded, newResponses, checkinCalls, checkinOK, mu,
               dpc, dActive, dChannel, dRollCall, dPending, dUser, dCheckin, dMembers, dSeen,
               isRunning, cpc, loop, jobs, currentTimeStr, cfg, lastCall, tick, produced, fired,
               erpCfg, epc, eOp, eReq, eAllowed, eResp, eErr, eWrapped, eMarked,
               eTime, eClock, eAttempt, revision,
               apc, aChannels, aChannel, announcements, summaries,
               rollCallRows, qpc, qChannel, qTool, qAnswer, match>>
\* what the scheduler never touches
outsideCron == <<storeVars, ret, procVars, ghostVars, mu, dailyVars, erpVars, startVars, dbVars, matchVars>>
\* what the outbound calls never touch
outsideERP == <<storeVars, ret, procVars, ghostVars, mu, dailyVars, cronVars, startVars, dbVars, matchVars>>

Sat(n) == IF n >= Many THEN Many ELSE n + 1

\* ------------------------------------------------- RollCallManager (store)
\* The map holds pointers.  An object is identified by its address (Addr);
\* an object that is no longer in the map can only be read through pointers
\* returned earlier, never written, so of such objects only the ones still
\* Active and the ones a handler still reads through its pointer are kept
\* (in detached).

\* the positions at which a handler reads through the pointer it holds
PointerPositions ==
    {"len(rollCall.ERPRecordedUsers)", "range rollCall.RespondedIDs", "User.Get",
     "IsUserCheckoutRecorded", "durationStr", "status", "checkinCount", "checkoutCount",
     "rollCall.ResponseCount"}

\* a handler invocation other than the excepted ones reads the object at a
Referenced(a, excepted) ==
    \E g \in Handlers \ excepted : hRollCall[g] = a /\ pc[g] \in PointerPositions

\* the object at address a, given the map and the objects outside it
DerefIn(m, d, a) ==
    IF \E c \in Channels : m[c].Addr = a
    THEN m[CHOOSE c \in Channels : m[c].Addr = a]
    ELSE CHOOSE o \in d : o.Addr = a

\* *rollCall
Deref(a) == DerefIn(activeRollCalls, detached, a)

\* rollCall, exists := r.activeRollCalls[channelID]
Exists(channelID) == activeRollCalls[channelID] # NoEntry

\* &RollCall{...} of StartRollCall; CheckoutRecordedUsers is left nil there,
\* and a nil map reads as the empty map everywhere it is read.
NewRollCall(channelID, initiatorID, now, addr) ==
    [ Addr                  |-> addr,
      ChannelID             |-> channelID,
      StartTime             |-> now,
      InitiatorID           |-> initiatorID,
      RespondedIDs          |-> {},
      ERPRecordedUsers      |-> {},
      Active                |-> TRUE,
      ResponseCount         |-> 0,
      CheckoutRecordedUsers |-> {} ]

\* Results of the methods: the store after the call and the returned values.
StoreResult(m, d, c, rc, new, e) ==
    [ activeRollCalls |-> m, detached |-> d, clock |-> c,
      rollCall |-> rc, isNewResponse |-> new, err |-> e ]

Unchanged(rc, new, e) == StoreResult(activeRollCalls, detached, clock, rc, new, e)

\* r.activeRollCalls[channelID] = rollCall: the object held before leaves the map
Overwritten(channelID) ==
    IF /\ Exists(channelID)
       /\ \/ activeRollCalls[channelID].Active
          \/ Referenced(activeRollCalls[channelID].Addr, {})
    THEN detached \cup {activeRollCalls[channelID]}
    ELSE detached

\* mutant: the active check is missing, the entry is always overwritten
StartRollCall_NoActiveCheck(channelID, initiatorID) ==
    LET rollCall == NewRollCall(channelID, initiatorID, clock + 1, clock + 1)
    IN StoreResult([activeRollCalls EXCEPT ![channelID] = rollCall],
                   Overwritten(channelID), clock + 1, rollCall.Addr, FALSE, ErrNil)

\* mutant: an active roll call is silently reused instead of reported
StartRollCall_ReusesActive(channelID, initiatorID) ==
    IF Exists(channelID) /\ activeRollCalls[channelID].Active
    THEN Unchanged(activeRollCalls[channelID].Addr, FALSE, ErrNil)
    ELSE LET rollCall == NewRollCall(channelID, initiatorID, clock + 1, clock + 1)
         IN StoreResult([activeRollCalls EXCEPT ![channelID] = rollCall],
                        Overwritten(channelID), clock + 1, rollCall.Addr, FALSE, ErrNil)

StartRollCall(channelID, initiatorID) ==
    IF Exists(channelID) /\ activeRollCalls[channelID].Active
    THEN Unchanged(NilAddr, FALSE, ErrAlreadyActive)
    ELSE LET rollCall == NewRollCall(channelID, initiatorID, clock + 1, clock + 1)
         IN StoreResult([activeRollCalls EXCEPT ![channelID] = rollCall],
                        Overwritten(channelID), clock + 1, rollCall.Addr, FALSE, ErrNil)

\* mutant: a roll call that was ended already is ended again
EndRollCall_EndsClosed(channelID) ==
    IF ~Exists(channelID)
    THEN Unchanged(NilAddr, FALSE, ErrNoActive)
    ELSE StoreResult([activeRollCalls EXCEPT ![channelID].Active = FALSE],
                     detached, clock, activeRollCalls[channelID].Addr, FALSE, ErrNil)

\* mutant: the roll call is returned but its Active flag is left set
EndRollCall_KeepsActive(channelID) ==
    IF ~Exists(channelID) \/ ~activeRollCalls[channelID].Active
    THEN Unchanged(NilAddr, FALSE, ErrNoActive)
    ELSE Unchanged(activeRollCalls[channelID].Addr, FALSE, ErrNil)

EndRollCall(channelID) ==
    IF ~Exists(channelID) \/ ~activeRollCalls[channelID].Active
    THEN Unchanged(NilAddr, FALSE, ErrNoActive)
    ELSE StoreResult([activeRollCalls EXCEPT ![channelID].Active = FALSE],
                     detached, clock, activeRollCalls[channelID].Addr, FALSE, ErrNil)

\* mutant: every response is taken as new
RespondToRollCall_AlwaysNew(channelID, userID) ==
    IF ~Exists(channelID) \/ ~activeRollCalls[channelID].Active
    THEN Unchanged(NilAddr, FALSE, ErrNoActive)
    ELSE StoreResult([activeRollCalls EXCEPT
                         ![channelID].RespondedIDs = @ \cup {userID},
                         ![channelID].ResponseCount = @ + 1],
                     detached, clock, activeRollCalls[channelID].Addr, TRUE, ErrNil)

\* mutant: ResponseCount++ sits outside the `if !responded` block
RespondToRollCall_CountsRepeats(channelID, userID) ==
    IF ~Exists(channelID) \/ ~activeRollCalls[channelID].Active
    THEN Unchanged(NilAddr, FALSE, ErrNoActive)
    ELSE StoreResult([activeRollCalls EXCEPT
                         ![channelID].RespondedIDs = @ \cup {userID},
                         ![channelID].ResponseCount = @ + 1],
                     detached, clock, activeRollCalls[channelID].Addr,
                     userID \notin activeRollCalls[channelID].RespondedIDs, ErrNil)

\* mutant: a repeated response is rejected with an error
RespondToRollCall_RejectsRepeat(channelID, userID) ==
    IF ~Exists(channelID) \/ ~activeRollCalls[channelID].Active
    THEN Unchanged(NilAddr, FALSE, ErrNoActive)
    ELSE IF userID \notin activeRollCalls[channelID].RespondedIDs
         THEN StoreResult([activeRollCalls EXCEPT
                              ![channelID].RespondedIDs = @ \cup {userID},
                              ![channelID].ResponseCount = @ + 1],
                          detached, clock, activeRollCalls[channelID].Addr, TRUE, ErrNil)
         ELSE Unchanged(NilAddr, FALSE, ErrNoActive)

RespondToRollCall(channelID, userID) ==
    IF ~Exists(channelID) \/ ~activeRollCalls[channelID].Active
    THEN Unchanged(NilAddr, FALSE, ErrNoActive)
    ELSE IF userID \notin activeRollCalls[channelID].RespondedIDs
         THEN StoreResult([activeRollCalls EXCEPT
                              ![channelID].RespondedIDs = @ \cup {userID},
                              ![channelID].ResponseCount = @ + 1],
                          detached, clock, activeRollCalls[channelID].Addr, TRUE, ErrNil)
         ELSE Unchanged(activeRollCalls[channelID].Addr, FALSE, ErrNil)

\* mutant: the person is marked in the roll call of every channel
MarkUserERPRecorded_EveryChannel(channelID, userID) ==
    IF ~Exists(channelID)
    THEN Unchanged(NilAddr, FALSE, ErrNoRollCall)
    ELSE StoreResult([c \in Channels |->
                         IF Exists(c)
                         THEN [activeRollCalls[c] EXCEPT !.ERPRecordedUsers = @ \cup {userID}]
                         ELSE activeRollCalls[c]],
                     detached, clock, NilAddr, FALSE, ErrNil)

MarkUserERPRecorded(channelID, userID) ==
    IF ~Exists(channelID)
    THEN Unchanged(NilAddr, FALSE, ErrNoRollCall)
    ELSE StoreResult([activeRollCalls EXCEPT ![channelID].ERPRecordedUsers = @ \cup {userID}],
                     detached, clock, NilAddr, FALSE, ErrNil)

\* returns (bool, error); the bool is carried in the isNewResponse slot
GetRollCall(channelID) ==
    IF ~Exists(channelID)
    THEN Unchanged(NilAddr, FALSE, ErrNoRollCall)
    ELSE Unchanged(activeRollCalls[channelID].Addr, FALSE, ErrNil)

\* returns (bool, error); the bool is carried in the isNewResponse slot
IsUserERPRecorded(channelID, userID) ==
    IF ~Exists(channelID)
    THEN Unchanged(NilAddr, FALSE, ErrNoRollCall)
    ELSE Unchanged(NilAddr, userID \in activeRollCalls[channelID].ERPRecordedUsers, ErrNil)

MarkUserCheckoutRecorded(channelID, userID) ==
    IF ~Exists(channelID)
    THEN Unchanged(NilAddr, FALSE, ErrNoRollCall)
    ELSE StoreResult([activeRollCalls EXCEPT ![channelID].CheckoutRecordedUsers = @ \cup {userID}],
                     detached, clock, NilAddr, FALSE, ErrNil)

\* returns (bool, error); a nil CheckoutRecordedUsers map reads as false
IsUserCheckoutRecorded(channelID, userID) ==
    IF ~Exists(channelID)
    THEN Unchanged(NilAddr, FALSE, ErrNoRollCall)
    ELSE Unchanged(NilAddr, userID \in activeRollCalls[channelID].CheckoutRecordedUsers, ErrNil)

\* ------------------------------------------------ RollCallManager.mu
\* goroutines: the handleRollCall invocations 1..NumHandlers, the
\* EndDailyRollCall goroutine and the StartDailyRollCall goroutine
DailyThread   == 0
StartDailyThread == NumHandlers + 1
NoThread      == -1
Threads       == DailyThread .. StartDailyThread

\* the zero sync.RWMutex
Unlocked == [writer |-> NoThread, readers |-> {}]

\* Lock blocks while the mutex is held at all, RLock while it is held for writing
CanLock  == mu.writer = NoThread /\ mu.readers = {}
CanRLock == mu.writer = NoThread

Lock(m, t)    == [m EXCEPT !.writer = t]
Unlock(m, t)  == [m EXCEPT !.writer = NoThread]
RLock(m, t)   == [m EXCEPT !.readers = @ \cup {t}]

\* mutant: the read lock is never released
RUnlock_Missing(m, t) == m

RUnlock(m, t) == [m EXCEPT !.readers = @ \ {t}]

\* r.mu.Lock(); defer r.mu.Unlock(): the method body runs in between
CriticalSection(t) == CanLock /\ mu' = Unlock(Lock(mu, t), t)

\* r.mu.RLock(); defer r.mu.RUnlock()
ReadSection(t) == CanRLock /\ mu' = RUnlock(RLock(mu, t), t)

\* the store part of a method result becomes the next store
Commit(r) ==
    /\ activeRollCalls' = r.activeRollCalls
    /\ detached' = r.detached
    /\ clock' = r.clock

\* no post
NoPost == "none"

\* a post with nothing but its message
Post(message) == [message |-> message]

\* the locals of the members loop of handleRollCallSummary before the loop
NoSummary ==
    [started |-> FALSE, pending |-> {}, visited |-> {}, checkIn |-> FALSE, members |-> {},
     durationStr |-> "none", status |-> "none", checkinCount |-> 0, checkoutCount |-> 0]

\* the call returns to its caller
Returned(t, op, r) ==
    ret' = [ret EXCEPT ![t] = [op |-> op, err |-> r.err, isNewResponse |-> r.isNewResponse]]

\* no RollCallManager call returned
NoReturn == [op |-> "none", err |-> ErrNil, isNewResponse |-> FALSE]

\* the step of goroutine t calls no RollCallManager method
NoCall(t) == ret' = [ret EXCEPT ![t] = NoReturn]

\* ------------------------------------------------------------- ghosts
\* The ghost history of a session is kept while the session can still act:
\* while its object is in the map or a running handler invocation responded
\* in it.  (Evaluated after the store and the handler variables are set.)
Reachable(a) ==
    \/ \E c \in Channels : activeRollCalls'[c].Addr = a
    \/ \E h \in Handlers : hRollCall'[h] = a
    \/ dRollCall'.Addr = a

KeepCounts(f) == [a \in Addrs |-> IF Reachable(a) THEN f[a] ELSE [u \in Users |-> 0]]
KeepPairs(s)  == {p \in s : Reachable(p[1])}

KeepPosts(f)  == [a \in Addrs |-> IF Reachable(a) THEN f[a] ELSE 0]

GhostsPosts(rs, nr, cc, ok, an, sm) ==
    /\ responded' = KeepPairs(rs)
    /\ newResponses' = KeepCounts(nr)
    /\ checkinCalls' = KeepCounts(cc)
    /\ checkinOK' = KeepPairs(ok)
    /\ announcements' = KeepPosts(an)
    /\ summaries' = KeepPosts(sm)

\* no post of a start announcement or an end summary in the step
Ghosts(rs, nr, cc, ok) == GhostsPosts(rs, nr, cc, ok, announcements, summaries)

\* the step posts in the channel whose session is a
Posted(f, a) == [f EXCEPT ![a] = Sat(@)]

SameGhosts == Ghosts(responded, newResponses, checkinCalls, checkinOK)

\* EndDailyRollCall is not running: its locals hold no value
NoRollCall == [Addr |-> NilAddr, RespondedIDs |-> {}, ResponseCount |-> 0]

\* no call of hostnameAllowed yet
NoMatch == [fn |-> "none", hostname |-> <<>>, allowedPatterns |-> <<>>, allowed |-> FALSE]

\* the database after the migration: LLM_RollCalls is empty, no request runs
NoRows ==
    /\ rollCallRows = {}
    /\ qpc = [q \in Requests |-> "idle"]
    /\ qChannel = [q \in Requests |-> 1]
    /\ qTool = [q \in Requests |-> FALSE]
    /\ qAnswer = [q \in Requests |-> "none"]

\* StartDailyRollCall is not running
StartDailyIdle ==
    /\ apc = "idle"
    /\ aChannels = <<>>
    /\ aChannel = 1

DailyIdle ==
    /\ dpc = "idle"
    /\ dActive = {}
    /\ dChannel = 1
    /\ dRollCall = NoRollCall
    /\ dPending = {}
    /\ dUser = 1
    /\ dCheckin = FALSE
    /\ dMembers = {}
    /\ dSeen = 0

\* ------------------------------------------------------------ CronJob
\* A time of day, and a "HH:MM:SS" string, is the record of its three numbers.
TimeOfDay(h, m, s) == [h |-> h, m |-> m, s |-> s]

\* the empty string of an unset configuration field
EmptyString == [h |-> -1, m |-> -1, s |-> -1]

DefaultRollCallStartTime == TimeOfDay(8, 0, 0)
DefaultAutoCheckoutTime  == TimeOfDay(17, 30, 0)

\* time.Time{}
ZeroTime == TimeOfDay(0, 0, 0)

\* mutant: on a LoadLocation error the process-local time is returned
GetVietnamTime_LocalFallback(locErr, now) == [err |-> FALSE, t |-> now]

\* time.LoadLocation fails, or time.Now().In(loc)
GetVietnamTime(locErr, now) ==
    IF locErr THEN [err |-> TRUE, t |-> ZeroTime] ELSE [err |-> FALSE, t |-> now]

\* configuration with both fields unset
NoConfiguration == [AutoStartRollCallTime |-> EmptyString, AutoCheckoutTime |-> EmptyString]

\* the actions checkScheduledTasks fires
Actions == {"StartDailyRollCall", "EndDailyRollCall"}

\* the CronJob of NewCronJob, nothing called yet
NewCronJob ==
    /\ isRunning = FALSE
    /\ cpc = [t \in Callers |-> "idle"]
    /\ loop = [i \in Loops |-> "none"]
    /\ jobs = [a \in Actions |-> 0]
    /\ currentTimeStr = [i \in Loops |-> ZeroTime]
    /\ lastCall = "none"
    /\ tick = "none"
    /\ produced = [a \in Actions |-> 0]
    /\ fired = [a \in Actions |-> 0]

\* ------------------------------------------------------------ strings
\* A string of a hostname, a URL or the allow-list setting is the sequence of
\* its pieces: a piece is a run of characters that no operation splits, so
\* two strings are equal exactly when their sequences are.
Blank == <<>>

\* strings.HasPrefix
HasPrefix(s, prefix) == Len(prefix) <= Len(s) /\ SubSeq(s, 1, Len(prefix)) = prefix

\* strings.HasSuffix
HasSuffix(s, suffix) ==
    Len(suffix) <= Len(s) /\ SubSeq(s, Len(s) - Len(suffix) + 1, Len(s)) = suffix

\* strings.Contains
Contains(s, substr) ==
    \E i \in 1..(Len(s) - Len(substr) + 1) : SubSeq(s, i, i + Len(substr) - 1) = substr

\* strings.ContainsAny
ContainsAny(s, chars) == \E i \in 1..Len(s) : s[i] \in chars

\* strings.TrimPrefix
TrimPrefix(s, prefix) ==
    IF HasPrefix(s, prefix) THEN SubSeq(s, Len(prefix) + 1, Len(s)) ELSE s

\* strings.TrimSuffix
TrimSuffix(s, suffix) ==
    IF HasSuffix(s, suffix) THEN SubSeq(s, 1, Len(s) - Len(suffix)) ELSE s

RECURSIVE TrimLeft(_)
TrimLeft(s) == IF s # Blank /\ Head(s) = " " THEN TrimLeft(Tail(s)) ELSE s

RECURSIVE TrimRight(_)
TrimRight(s) ==
    IF s # Blank /\ s[Len(s)] = " " THEN TrimRight(SubSeq(s, 1, Len(s) - 1)) ELSE s

\* strings.TrimSpace
TrimSpace(s) == TrimRight(TrimLeft(s))

\* strings.Split: the substrings between the separators, in order
RECURSIVE Split(_, _)
Split(s, sep) ==
    IF \E i \in 1..Len(s) : s[i] = sep
    THEN LET i == CHOOSE k \in 1..Len(s) : s[k] = sep /\ \A j \in 1..(k - 1) : s[j] # sep
         IN  <<SubSeq(s, 1, i - 1)>> \o Split(SubSeq(s, i + 1, Len(s)), sep)
    ELSE <<s>>

\* ------------------------------------------------- restrictedTransport
\* "erp-demo.workdone.vn"
ERPSystemDomain == <<"erp-demo", ".", "workdone", ".", "vn">>

\* "/api/method/frappe.desk.form.save.savedocs"
ERPEndpointSuffix == <<"/", "api", "/", "method", "/", "frappe.desk.form.save.savedocs">>

\* "/api/resource/Employee" and the query that follows it
ERPResourceSuffix == <<"/", "api", "/", "resource", "/", "Employee", "?", "fields">>

\* len(urls) of GetEmployeeByChatID
NumURLFormats == 3

\* the `for _, pattern := range allowedPatterns` loop of hostnameAllowed
RECURSIVE hostnameAllowedRange(_, _)
hostnameAllowedRange(hostname, allowedPatterns) ==
    IF allowedPatterns = <<>> THEN FALSE
    ELSE LET pattern == Head(allowedPatterns) IN
         IF pattern = <<"*">> THEN TRUE
         ELSE IF HasPrefix(pattern, <<"*", ".">>)
              THEN IF ContainsAny(hostname, {"%"}) THEN FALSE
                   ELSE IF HasSuffix(hostname, Tail(pattern)) THEN TRUE
                   ELSE hostnameAllowedRange(hostname, Tail(allowedPatterns))
              ELSE IF hostname = pattern THEN TRUE
                   ELSE hostnameAllowedRange(hostname, Tail(allowedPatterns))

\* hostnameAllowed: a hostname containing the ERP system domain is let
\* through before the patterns are looked at
hostnameAllowed(hostname, allowedPatterns) ==
    IF Contains(hostname, ERPSystemDomain) THEN TRUE
    ELSE hostnameAllowedRange(hostname, allowedPatterns)

\* the non-empty trimmed items of a list of strings, in order
RECURSIVE TrimmedNonEmpty(_)
TrimmedNonEmpty(userPatterns) ==
    IF userPatterns = <<>> THEN <<>>
    ELSE LET p == TrimSpace(Head(userPatterns)) IN
         (IF p # Blank THEN <<p>> ELSE <<>>) \o TrimmedNonEmpty(Tail(userPatterns))

\* parseAllowedHostnames of http_external.go: the comma-separated setting as
\* a list of patterns
parseAllowedHostnames(allowedHostnames) ==
    IF TrimSpace(allowedHostnames) = Blank THEN <<>>
    ELSE TrimmedNonEmpty(Split(TrimSpace(allowedHostnames), ","))

\* parseAllowedHostnames of rollup.go: a setting that is not blank gives a
\* list that begins with the ERP system domain
parseAllowedHostnamesRollup(allowedHostnames) ==
    IF TrimSpace(allowedHostnames) = Blank THEN <<>>
    ELSE <<ERPSystemDomain>> \o TrimmedNonEmpty(Split(TrimSpace(allowedHostnames), ","))

\* extractHostname: scheme, path and port cut off a URL
extractHostname(urlStr) ==
    LET withScheme == IF ~HasPrefix(urlStr, <<"http://">>) /\ ~HasPrefix(urlStr, <<"https://">>)
                      THEN <<"https://">> \o urlStr ELSE urlStr
        host == TrimPrefix(TrimPrefix(withScheme, <<"http://">>), <<"https://">>)
    IN  Split(Split(host, "/")[1], ":")[1]

\* createExternalHTTPClient of http_external.go: the allowedHosts of the
\* client it returns
createExternalHTTPClient(config) ==
    IF config.ERPDomain # Blank /\ extractHostname(config.ERPDomain) # Blank
    THEN <<extractHostname(config.ERPDomain)>>
             \o parseAllowedHostnames(config.AllowedUpstreamHostnames)
    ELSE parseAllowedHostnames(config.AllowedUpstreamHostnames)

\* createExternalHTTPClient of rollup.go: the allowedHosts of the client it
\* returns
createExternalHTTPClientRollup(config) ==
    parseAllowedHostnamesRollup(config.AllowedUpstreamHostnames)

\* the two revisions of the restrictedTransport code
Revisions == {"http_external.go", "rollup.go"}

\* the hostnameAllowed of a revision
hostnameAllowedOf(fn, hostname, allowedPatterns) ==
    IF fn = "rollup.go"
    THEN hostnameAllowed(hostname, allowedPatterns)
    ELSE hostnameAllowedRange(hostname, allowedPatterns)

\* the createExternalHTTPClient of a revision
createExternalHTTPClientOf(fn, config) ==
    IF fn = "rollup.go"
    THEN createExternalHTTPClientRollup(config)
    ELSE createExternalHTTPClient(config)

\* req.URL.Hostname() of the request http.NewRequest builds from a URL string:
\* the host without its port, empty when the string has no scheme
Hostname(urlStr) ==
    IF HasPrefix(urlStr, <<"http://">>) \/ HasPrefix(urlStr, <<"https://">>)
    THEN Split(Split(TrimPrefix(TrimPrefix(urlStr, <<"http://">>), <<"https://">>), "/")[1], ":")[1]
    ELSE Blank

\* ---------------------------------------------------------- ERP adapter
ERPOps == {"RecordEmployeeCheckin", "RecordEmployeeCheckout"}

\* the error GetEmployeeByChatID returns for a response it parsed: the number
\* of employees of the response whose custom_chat_id is chatID decides
EmployeeError(matched) ==
    IF matched = 0 THEN "no employee found with chat_id"
    ELSE IF matched > 1 THEN "multiple employees found with chat_id"
    ELSE ErrNil

\* mutant: the API secret is not validated
ConfigError_NoSecretCheck(config) ==
    IF config.ERPDomain = Blank THEN "ERP domain not configured"
    ELSE IF config.ERPAPIKey = Blank THEN "ERP API key not configured"
    ELSE ErrNil

\* "Validate configuration" of RecordEmployeeCheckin / RecordEmployeeCheckout
ConfigError(config) ==
    IF config.ERPDomain = Blank THEN "ERP domain not configured"
    ELSE IF config.ERPAPIKey = Blank THEN "ERP API key not configured"
    ELSE IF config.ERPAPISecret = Blank THEN "ERP API secret not configured"
    ELSE ErrNil

\* what client.Do gives back: an error, or a response with its status code,
\* whether reading its body fails, and its body
DoError == [err |-> TRUE, StatusCode |-> 0, readErr |-> FALSE, body |-> "none"]
NoResponse == [err |-> FALSE, StatusCode |-> 0, readErr |-> FALSE, body |-> "none"]

\* the error RecordEmployeeCheckin / RecordEmployeeCheckout return after client.Do
SyncError(resp) ==
    IF resp.err THEN "failed to send request"
    ELSE IF resp.readErr THEN "failed to read response"
    ELSE IF resp.StatusCode >= 400 THEN "ERP API error"
    ELSE ErrNil

\* t.Format("2006-01-02 15:04:05"): the wall clock of an instant in a zone
Format2006(instant, loc) == [t |-> instant, loc |-> loc]

\* the "" returned with an error
NoTime == [t |-> ZeroTime, loc |-> "none"]

\* no adapter call made: no clock read
NoClock == [now |-> ZeroTime, locErr |-> FALSE, locErrNew |-> FALSE]

\* serverTime of RecordEmployeeCheckin / RecordEmployeeCheckout:
\* vietTime.UnixMilli(), or model.GetMillis() when GetVietnamTime fails; an
\* instant is named by its reading in the Vietnam zone
ServerTime(locErr, now) ==
    IF GetVietnamTime(locErr, now).err THEN now ELSE GetVietnamTime(locErr, now).t

\* mutant: the time.Time{} that came with the error is formatted
NewEmployeeCheckin_NoFallback(serverTimeMillis, locErr, now) ==
    Format2006(GetVietnamTime(locErr, now).t, "Asia/Ho_Chi_Minh")

\* formattedTime of NewEmployeeCheckin / NewEmployeeCheckout: the Vietnam
\* time, or serverTimeMillis in the process-local zone when GetVietnamTime fails
NewEmployeeCheckin(serverTimeMillis, locErr, now) ==
    IF ~GetVietnamTime(locErr, now).err
    THEN Format2006(GetVietnamTime(locErr, now).t, "Asia/Ho_Chi_Minh")
    ELSE Format2006(serverTimeMillis, "Local")

\* no request built
NoRequest == [URL |-> FALSE, Hostname |-> Blank]

\* configuration with no ERP field and no allowed hostname set
NoERPConfiguration ==
    [ERPDomain |-> Blank, ERPAPIKey |-> Blank, ERPAPISecret |-> Blank,
     AllowedUpstreamHostnames |-> Blank]

\* no outbound call made yet
NoOutboundCall ==
    /\ epc = "idle"
    /\ eOp = "none"
    /\ eReq = NoRequest
    /\ eAllowed = <<>>
    /\ eResp = NoResponse
    /\ eErr = ErrNil
    /\ eWrapped = FALSE
    /\ eMarked = FALSE
    /\ eTime = NoTime
    /\ eClock = NoClock
    /\ eAttempt = 0

\* --------------------------------------------------------------- Init
\* the store of NewRollCallManager and no handler invocation running
NewRollCallManager ==
    /\ activeRollCalls = [c \in Channels |-> NoEntry]
    /\ detached = {}
    /\ clock = 0
    /\ ret = [t \in Threads |-> NoReturn]
    /\ pc = [h \in Handlers |-> "idle"]
    /\ hChannel = [h \in Handlers |-> 1]
    /\ hUser = [h \in Handlers |-> 1]
    /\ hRollCall = [h \in Handlers |-> NilAddr]
    /\ hPost = [h \in Handlers |-> Post(NoPost)]
    /\ hSummary = [h \in Handlers |-> NoSummary]
    /\ responded = {}
    /\ newResponses = [a \in Addrs |-> [u \in Users |-> 0]]
    /\ checkinCalls = [a \in Addrs |-> [u \in Users |-> 0]]
    /\ checkinOK = {}
    /\ mu = Unlocked
    /\ announcements = [a \in Addrs |-> 0]
    /\ summaries = [a \in Addrs |-> 0]
    /\ DailyIdle
    /\ StartDailyIdle
    /\ NoRows
    /\ match = NoMatch

Init ==
    /\ NewRollCallManager
    /\ NewCronJob
    /\ cfg = NoConfiguration
    /\ erpCfg = NoERPConfiguration
    /\ revision = "http_external.go"
    /\ NoOutboundCall

\* ------------------------------------------------------------ handlers
\* handleRollCall dispatches a message to handleStartRollCall,
\* handleEndRollCall, handleRollCallSummary or handleRollCallResponse.  An
\* invocation runs from one blocking call to the next: a RollCallManager
\* method (the lock is taken and released inside the method), a network call
\* (RecordEmployeeCheckin, RecordEmployeeCheckout), a chat-platform call
\* (User.Get, the post).  A position named after a network or chat-platform
\* call means that call is in flight, with no lock held.  What an invocation
\* does between two blocking calls touches only its own locals and is taken
\* together with the call that follows, except for the reads it makes through
\* the *RollCall pointer without the lock, which are steps of their own.

\* the messages of the posts
RollCallStarted       == "Roll Call Started!"
ErrorStartingRollCall == "Error starting roll call"
RollCallEnded         == "Roll Call Ended!"
ErrorEndingRollCall   == "Error ending roll call"

AttendanceRecorded    == "Your attendance has been recorded"
ErrorGettingRollCall  == "Error getting roll call"
RollCallSummary       == "Roll Call Summary"

\* the Go runtime stops the process: a map was written while it was ranged over
Fatal == "fatal error: concurrent map iteration and map write"

\* the process is running
Running == \A h \in Handlers : pc[h] # Fatal

\* invocation h is at a position
Position(h, label) == Running /\ pc[h] = label

\* a message arrives: the invocation takes the first free slot
FirstIdle(h) == Position(h, "idle") /\ \A g \in Handlers : g < h => pc[g] # "idle"

\* the locals of invocation h after a step
Locals(h, label, channelID, userID, rollCall, post, summary) ==
    /\ pc' = [pc EXCEPT ![h] = label]
    /\ hChannel' = [hChannel EXCEPT ![h] = channelID]
    /\ hUser' = [hUser EXCEPT ![h] = userID]
    /\ hRollCall' = [hRollCall EXCEPT ![h] = rollCall]
    /\ hPost' = [hPost EXCEPT ![h] = post]
    /\ hSummary' = [hSummary EXCEPT ![h] = summary]

\* the handler invocation returns
Return(h) == Locals(h, "idle", 1, 1, NilAddr, Post(NoPost), NoSummary)

At(h, label) ==
    /\ pc' = [pc EXCEPT ![h] = label]
    /\ UNCHANGED <<hChannel, hUser, hRollCall, hPost, hSummary>>

\* the handler builds the acknowledgement of a response and posts it
Acknowledge(h, channelID) ==
    Locals(h, "CreatePost", channelID, 1, NilAddr, Post(AttendanceRecorded), NoSummary)

\* invocation h drops its *RollCall pointer: an object that is in the map no
\* more and that no other invocation reads through a pointer is garbage
Release(h) ==
    /\ detached' = {o \in detached : o.Active \/ Referenced(o.Addr, {h})}
    /\ UNCHANGED <<activeRollCalls, clock>>

\* mutant: the announcement is posted whatever StartRollCall returned
StartReply_AlwaysAnnounces(err) == RollCallStarted

\* the reply of handleStartRollCall, given the error StartRollCall returned
StartReply(err) == IF err # ErrNil THEN ErrorStartingRollCall ELSE RollCallStarted

\* the reply of handleEndRollCall, given the error EndRollCall returned
EndReply(err) == IF err # ErrNil THEN ErrorEndingRollCall ELSE RollCallEnded

\* handleStartRollCall: StartRollCall returns, and the announcement or the
\* error post is built and sent
handleStartRollCall(h, channelID, userID) ==
    LET r == StartRollCall(channelID, userID)
    IN /\ FirstIdle(h)
       /\ r.err = ErrNil => clock < MaxSessions
       /\ Commit(r)
       /\ CriticalSection(h)
       /\ Returned(h, "StartRollCall", r)
       /\ Locals(h, "CreatePost", channelID, 1, r.rollCall, Post(StartReply(r.err)), NoSummary)
       /\ UNCHANGED outsideHandlers
       /\ SameGhosts

\* handleEndRollCall: EndRollCall returns; after an error the error post is
\* sent, otherwise the handler goes on to read the counts
handleEndRollCall(h, channelID) ==
    LET r == EndRollCall(channelID)
    IN /\ FirstIdle(h)
       /\ Commit(r)
       /\ CriticalSection(h)
       /\ Returned(h, "EndRollCall", r)
       /\ IF r.err # ErrNil
          THEN Locals(h, "CreatePost", channelID, 1, NilAddr, Post(EndReply(r.err)), NoSummary)
          ELSE Locals(h, "len(rollCall.ERPRecordedUsers)", channelID, 1, r.rollCall,
                      Post(NoPost), NoSummary)
       /\ UNCHANGED outsideHandlers
       /\ SameGhosts

\* handleEndRollCall: len(rollCall.ERPRecordedUsers) and rollCall.ResponseCount
\* are read through the pointer with no lock held, and the end post is sent
handleEndRollCallCounts(h) ==
    LET rollCall == Deref(hRollCall[h])
    IN /\ Position(h, "len(rollCall.ERPRecordedUsers)")
       /\ Locals(h, "CreatePost", hChannel[h], 1, hRollCall[h],
                 [message       |-> EndReply(ErrNil),
                  ResponseCount |-> rollCall.ResponseCount,
                  erpCount      |-> Cardinality(rollCall.ERPRecordedUsers)],
                 NoSummary)
       /\ Release(h)
       /\ NoCall(h)
       /\ UNCHANGED <<mu, outsideHandlers>>
       /\ SameGhosts

\* botCreateNonResponsePost / botCreatePost returns, with or without an
\* error, and the handler returns
CreatePost(h) ==
    /\ Position(h, "CreatePost")
    /\ Return(h)
    /\ NoCall(h)
    /\ UNCHANGED <<storeVars, mu, outsideHandlers>>
    /\ GhostsPosts(responded, newResponses, checkinCalls, checkinOK,
                   IF hPost[h].message = RollCallStarted /\ hRollCall[h] # NilAddr
                   THEN Posted(announcements, hRollCall[h])
                   ELSE announcements,
                   IF hPost[h].message = RollCallEnded /\ hRollCall[h] # NilAddr
                   THEN Posted(summaries, hRollCall[h])
                   ELSE summaries)

\* mutant: a message that met no active roll call is acknowledged all the same
ResponseReply_AlwaysAcknowledges(err, isNew) ==
    IF err = ErrNil /\ isNew THEN NoPost ELSE AttendanceRecorded

\* what handleRollCallResponse posts on the return of RespondToRollCall:
\* nothing after an error (`return nil`), the acknowledgement after a
\* repeated response, nothing yet after a new one
ResponseReply(err, isNew) ==
    IF err # ErrNil THEN NoPost
    ELSE IF isNew THEN NoPost ELSE AttendanceRecorded

\* mutant: the ERP branch is entered whether or not the response is new
AfterRespond_Always(isNew) == "IsUserERPRecorded"

\* `if isNewResponse { ... } else { ... }` of handleRollCallResponse
AfterRespond(isNew) == IF isNew THEN "IsUserERPRecorded" ELSE "idle"

\* `if !alreadyRecorded { ... } else { ... }` of handleRollCallResponse
AfterIsRecorded(alreadyRecorded) == IF ~alreadyRecorded THEN "RecordEmployeeCheckin" ELSE "idle"

\* entry of handleRollCallResponse: RespondToRollCall returns; an error
\* returns nil at once, a repeated response goes on to the acknowledgement, a
\* new one to IsUserERPRecorded
Respond(h, channelID, userID) ==
    LET r == RespondToRollCall(channelID, userID)
        post == ResponseReply(r.err, r.isNewResponse)
    IN /\ FirstIdle(h)
       /\ Commit(r)
       /\ CriticalSection(h)
       /\ UNCHANGED outsideHandlers
       /\ Returned(h, "RespondToRollCall", r)
       /\ IF r.err = ErrNil /\ AfterRespond(r.isNewResponse) # "idle"
          THEN Locals(h, AfterRespond(r.isNewResponse), channelID, userID, r.rollCall,
                      Post(NoPost), NoSummary)
          ELSE IF post # NoPost
               THEN Locals(h, "CreatePost", channelID, 1, NilAddr, Post(post), NoSummary)
               ELSE UNCHANGED procVars
       /\ IF r.err # ErrNil
          THEN SameGhosts
          ELSE Ghosts(responded \cup {<<r.rollCall, userID>>},
                      [newResponses EXCEPT ![r.rollCall][userID] =
                                   IF r.isNewResponse THEN Sat(@) ELSE @],
                      checkinCalls, checkinOK)

\* alreadyRecorded, _ := IsUserERPRecorded(channel.Id, user.Id); an already
\* recorded person is acknowledged
LookupRecorded(h) ==
    LET r == IsUserERPRecorded(hChannel[h], hUser[h])
    IN /\ Position(h, "IsUserERPRecorded")
       /\ Returned(h, "IsUserERPRecorded", r)
       /\ ReadSection(h)
       /\ UNCHANGED <<storeVars, outsideHandlers>>
       /\ IF AfterIsRecorded(r.isNewResponse) = "idle"
          THEN Acknowledge(h, hChannel[h])
          ELSE At(h, "GetEmployeeNameFromUser")
       /\ SameGhosts

\* GetEmployeeNameFromUser, then RecordEmployeeCheckin is called
CallRecordEmployeeCheckin(h) ==
    /\ Position(h, "GetEmployeeNameFromUser")
    /\ At(h, "RecordEmployeeCheckin")
    /\ NoCall(h)
    /\ UNCHANGED <<storeVars, mu, outsideHandlers>>
    /\ Ghosts(responded, newResponses,
              [checkinCalls EXCEPT ![hRollCall[h]][hUser[h]] = Sat(@)],
              checkinOK)

\* RecordEmployeeCheckin returns an error: the handler acknowledges with a
\* warning and marks nothing
CheckinFails(h) ==
    /\ Position(h, "RecordEmployeeCheckin")
    /\ Acknowledge(h, hChannel[h])
    /\ NoCall(h)
    /\ UNCHANGED <<storeVars, mu, outsideHandlers>>
    /\ SameGhosts

\* the AutoCheckoutTime values a response meets: unset, out of range, the default
CheckoutTimes == {EmptyString, TimeOfDay(24, 0, 0), DefaultAutoCheckoutTime}

\* the readings of time.Now() a response meets, around the checkout time;
\* frac says whether the reading has a part below the second
ResponseTimes == {TimeOfDay(17, 29, 59), TimeOfDay(17, 30, 0), TimeOfDay(17, 30, 1)}

\* time.Parse("15:04:05", timeStr) accepts hours 0..23, minutes and seconds 0..59
ParseCheckoutTime(timeStr) ==
    IF timeStr = EmptyString
    THEN [err |-> TRUE, t |-> ZeroTime]
    ELSE IF timeStr.h \in 0..23 /\ timeStr.m \in 0..59 /\ timeStr.s \in 0..59
         THEN [err |-> FALSE, t |-> timeStr]
         ELSE [err |-> TRUE, t |-> ZeroTime]

SecondOfDay(t) == (t.h * 60 + t.m) * 60 + t.s

\* checkoutTime.Before(vietNow): checkoutTime has no part below the second
Before(checkoutTime, vietNow, frac) ==
    \/ SecondOfDay(checkoutTime) < SecondOfDay(vietNow)
    \/ SecondOfDay(checkoutTime) = SecondOfDay(vietNow) /\ frac

\* mutant: a checkout time that has passed is returned all the same
GetCheckoutTimeForToday_KeepsPassed(configuredTime, locErr, now, frac) ==
    LET parsedTime == ParseCheckoutTime(configuredTime)
        vietNow    == GetVietnamTime(locErr, now)
    IN IF parsedTime.err \/ vietNow.err
       THEN [err |-> TRUE, t |-> ZeroTime]
       ELSE [err |-> FALSE, t |-> parsedTime.t]

\* today's date with the configured time of day, an error when the time does
\* not parse, the zone does not load or the time has passed
GetCheckoutTimeForToday(configuredTime, locErr, now, frac) ==
    LET parsedTime == ParseCheckoutTime(configuredTime)
        vietNow    == GetVietnamTime(locErr, now)
    IN IF parsedTime.err \/ vietNow.err
       THEN [err |-> TRUE, t |-> ZeroTime]
       ELSE IF Before(parsedTime.t, vietNow.t, frac)
            THEN [err |-> TRUE, t |-> ZeroTime]
            ELSE [err |-> FALSE, t |-> parsedTime.t]

\* RecordEmployeeCheckin returns no error: MarkUserERPRecorded, then
\* GetCheckoutTimeForToday, which fails (the acknowledgement is built and
\* posted) or lets RecordEmployeeCheckout be called
CheckinSucceedsWith(h, timeErr) ==
    LET r == MarkUserERPRecorded(hChannel[h], hUser[h])
    IN /\ Position(h, "RecordEmployeeCheckin")
       /\ Commit(r)
       /\ CriticalSection(h)
       /\ UNCHANGED outsideHandlers
       /\ Returned(h, "MarkUserERPRecorded", r)
       /\ IF timeErr
          THEN Acknowledge(h, hChannel[h])
          ELSE At(h, "RecordEmployeeCheckout")
       /\ Ghosts(responded, newResponses, checkinCalls,
                 checkinOK \cup {<<hRollCall[h], hUser[h]>>})

\* the step with the configured checkout time and the clock reading it meets
CheckinSucceedsAt(h, configuredTime, locErr, now, frac) ==
    CheckinSucceedsWith(h, GetCheckoutTimeForToday(configuredTime, locErr, now, frac).err)

\* the results of GetCheckoutTimeForToday over the configurations and readings
CheckoutTimeErrors ==
    {GetCheckoutTimeForToday(configuredTime, locErr, now, frac).err :
        configuredTime \in CheckoutTimes, locErr \in BOOLEAN,
        now \in ResponseTimes, frac \in BOOLEAN}

CheckinSucceeds(h) ==
    \E timeErr \in CheckoutTimeErrors : CheckinSucceedsWith(h, timeErr)

\* RecordEmployeeCheckout returns an error: acknowledged with a warning
CheckoutFails(h) ==
    /\ Position(h, "RecordEmployeeCheckout")
    /\ Acknowledge(h, hChannel[h])
    /\ NoCall(h)
    /\ UNCHANGED <<storeVars, mu, outsideHandlers>>
    /\ SameGhosts

\* RecordEmployeeCheckout returns no error: MarkUserCheckoutRecorded, and the
\* acknowledgement is built and posted
CheckoutSucceeds(h) ==
    LET r == MarkUserCheckoutRecorded(hChannel[h], hUser[h])
    IN /\ Position(h, "RecordEmployeeCheckout")
       /\ Commit(r)
       /\ CriticalSection(h)
       /\ UNCHANGED outsideHandlers
       /\ Returned(h, "MarkUserCheckoutRecorded", r)
       /\ Acknowledge(h, hChannel[h])
       /\ SameGhosts

\* ------------------------------------------------ handleRollCallSummary
\* GetRollCall: an error is posted and the handler returns; otherwise the
\* handler goes on with the pointer to the loop over the members
SummaryGetRollCall(h, channelID) ==
    LET r == GetRollCall(channelID)
    IN /\ FirstIdle(h)
       /\ ReadSection(h)
       /\ Returned(h, "GetRollCall", r)
       /\ IF r.err # ErrNil
          THEN Locals(h, "CreatePost", channelID, 1, NilAddr, Post(ErrorGettingRollCall),
                      NoSummary)
          ELSE Locals(h, "range rollCall.RespondedIDs", channelID, 1, r.rollCall,
                      Post(NoPost), NoSummary)
       /\ UNCHANGED <<storeVars, outsideHandlers>>
       /\ SameGhosts

\* the keys the loop has still to produce: the keys the map had when the
\* loop began and that were not produced yet
SummaryPending(h) ==
    IF hSummary[h].started
    THEN hSummary[h].pending
    ELSE Deref(hRollCall[h]).RespondedIDs

\* the keys added to the map since the loop began: the loop may produce
\* them or skip them
SummaryAdded(h) ==
    IF hSummary[h].started
    THEN Deref(hRollCall[h]).RespondedIDs \ (hSummary[h].pending \cup hSummary[h].visited)
    ELSE {}

\* `for userID := range rollCall.RespondedIDs`, with no lock held: the loop
\* produces its next key and User.Get is called for it
SummaryRange(h, userID) ==
    /\ Position(h, "range rollCall.RespondedIDs")
    /\ userID \in SummaryPending(h) \cup SummaryAdded(h)
    /\ Locals(h, "User.Get", hChannel[h], userID, hRollCall[h], hPost[h],
              [hSummary[h] EXCEPT !.started = TRUE,
                                  !.pending = SummaryPending(h) \ {userID},
                                  !.visited = @ \cup {userID}])
    /\ NoCall(h)
    /\ UNCHANGED <<storeVars, mu, outsideHandlers>>
    /\ SameGhosts

\* the summary Message: durationStr, status, rollCall.ResponseCount as it is
\* read when the Message is formatted, the two counts and the members
SummaryOf(summary, responseCount) ==
    [message       |-> RollCallSummary,
     Duration      |-> summary.durationStr,
     Status        |-> summary.status,
     ResponseCount |-> responseCount,
     checkinCount  |-> summary.checkinCount,
     checkoutCount |-> summary.checkoutCount,
     Members       |-> summary.members]

\* a step of the summary after the loop: the handler goes on to the next
\* read with what it has read so far
SummaryReads(h, label, summary) ==
    /\ Locals(h, label, hChannel[h], 1, hRollCall[h], hPost[h], summary)
    /\ NoCall(h)
    /\ UNCHANGED <<storeVars, mu, outsideHandlers>>
    /\ SameGhosts

\* the loop ends once the keys the map had at its beginning are produced;
\* of its locals respondedMembers lives on
SummaryRangeEnds(h) ==
    /\ Position(h, "range rollCall.RespondedIDs")
    /\ SummaryPending(h) = {}
    /\ SummaryReads(h, "durationStr", [NoSummary EXCEPT !.members = hSummary[h].members])

\* `if rollCall.Active` of durationStr, read with no lock held
SummaryReadDuration(h) ==
    /\ Position(h, "durationStr")
    /\ SummaryReads(h, "status",
                    [hSummary[h] EXCEPT !.durationStr =
                        IF Deref(hRollCall[h]).Active THEN "Active for" ELSE "Was active for"])

\* `if !rollCall.Active` of status, read with no lock held
SummaryReadStatus(h) ==
    /\ Position(h, "status")
    /\ SummaryReads(h, "checkinCount",
                    [hSummary[h] EXCEPT !.status =
                        IF ~Deref(hRollCall[h]).Active THEN "Ended" ELSE "Active"])

\* checkinCount := len(rollCall.ERPRecordedUsers), read with no lock held
SummaryReadCheckins(h) ==
    /\ Position(h, "checkinCount")
    /\ SummaryReads(h, "checkoutCount",
                    [hSummary[h] EXCEPT !.checkinCount =
                        Cardinality(Deref(hRollCall[h]).ERPRecordedUsers)])

\* checkoutCount: 0 for a nil map, len(rollCall.CheckoutRecordedUsers)
\* otherwise, read with no lock held
SummaryReadCheckouts(h) ==
    /\ Position(h, "checkoutCount")
    /\ SummaryReads(h, "rollCall.ResponseCount",
                    [hSummary[h] EXCEPT !.checkoutCount =
                        Cardinality(Deref(hRollCall[h]).CheckoutRecordedUsers)])

\* rollCall.ResponseCount is read with no lock held when the Message is
\* formatted, and the summary is posted
SummaryRead(h) ==
    /\ Position(h, "rollCall.ResponseCount")
    /\ Locals(h, "CreatePost", hChannel[h], 1, NilAddr,
              SummaryOf(hSummary[h], Deref(hRollCall[h]).ResponseCount), NoSummary)
    /\ Release(h)
    /\ NoCall(h)
    /\ UNCHANGED <<mu, outsideHandlers>>
    /\ SameGhosts

\* a RespondToRollCall call can be writing rollCall.RespondedIDs now: an
\* invocation can begin, the lock is free and the session takes a new
\* response
MapWriteBeside(h) ==
    /\ \E g \in Handlers : pc[g] = "idle"
    /\ CanLock
    /\ \E c \in Channels, u \in Users :
          /\ RespondToRollCall(c, u).isNewResponse
          /\ RespondToRollCall(c, u).rollCall = hRollCall[h]

\* the loop reads the map while RespondToRollCall writes it: the runtime
\* detects it and stops the process
SummaryRangeFatal(h) ==
    /\ Position(h, "range rollCall.RespondedIDs")
    /\ MapWriteBeside(h)
    /\ pc' = [pc EXCEPT ![h] = Fatal]
    /\ UNCHANGED <<hChannel, hUser, hRollCall, hPost, hSummary>>
    /\ NoCall(h)
    /\ UNCHANGED <<storeVars, mu, outsideHandlers>>
    /\ SameGhosts

\* User.Get returns an error: the member is left out (`continue`)
SummaryGetUserFails(h) ==
    /\ Position(h, "User.Get")
    /\ Locals(h, "range rollCall.RespondedIDs", hChannel[h], 1, hRollCall[h], hPost[h],
              hSummary[h])
    /\ NoCall(h)
    /\ UNCHANGED <<storeVars, mu, outsideHandlers>>
    /\ SameGhosts

\* User.Get returns the user: IsUserERPRecorded(channel.Id, userID)
SummaryGetUserReturns(h) ==
    LET r == IsUserERPRecorded(hChannel[h], hUser[h])
    IN /\ Position(h, "User.Get")
       /\ ReadSection(h)
       /\ Returned(h, "IsUserERPRecorded", r)
       /\ Locals(h, "IsUserCheckoutRecorded", hChannel[h], hUser[h], hRollCall[h], hPost[h],
                 [hSummary[h] EXCEPT !.checkIn = r.isNewResponse])
       /\ UNCHANGED <<storeVars, outsideHandlers>>
       /\ SameGhosts

\* IsUserCheckoutRecorded(channel.Id, userID); the member is appended with
\* the marks of the two lookups
SummaryCheckoutLookup(h) ==
    LET r == IsUserCheckoutRecorded(hChannel[h], hUser[h])
    IN /\ Position(h, "IsUserCheckoutRecorded")
       /\ ReadSection(h)
       /\ Returned(h, "IsUserCheckoutRecorded", r)
       /\ Locals(h, "range rollCall.RespondedIDs", hChannel[h], 1, hRollCall[h], hPost[h],
                 [hSummary[h] EXCEPT
                     !.checkIn = FALSE,
                     !.members = @ \cup {[user     |-> hUser[h],
                                          checkIn  |-> hSummary[h].checkIn,
                                          checkOut |-> r.isNewResponse]}])
       /\ UNCHANGED <<storeVars, outsideHandlers>>
       /\ SameGhosts

\* the steps of a handleRollCallResponse invocation after its entry
ResponseStep(h) ==
    \/ LookupRecorded(h)
    \/ CallRecordEmployeeCheckin(h)
    \/ CheckinFails(h)
    \/ CheckinSucceeds(h)
    \/ CheckoutFails(h)
    \/ CheckoutSucceeds(h)

\* the steps of a handleRollCallSummary invocation after its entry
SummaryStep(h) ==
    \/ \E u \in Users : SummaryRange(h, u)
    \/ SummaryRangeFatal(h)
    \/ SummaryGetUserFails(h)
    \/ SummaryGetUserReturns(h)
    \/ SummaryCheckoutLookup(h)
    \/ SummaryRangeEnds(h)
    \/ SummaryReadDuration(h)
    \/ SummaryReadStatus(h)
    \/ SummaryReadCheckins(h)
    \/ SummaryReadCheckouts(h)
    \/ SummaryRead(h)

\* handleRollCall: the four kinds of message, for the invocations hs (the
\* summary requests among them in ss) and the channels cs
handleRollCall(hs, ss, cs) ==
    \/ \E h \in hs, c \in cs, u \in Initiators : handleStartRollCall(h, c, u)
    \/ \E h \in hs, c \in cs : handleEndRollCall(h, c)
    \/ \E h \in hs : handleEndRollCallCounts(h)
    \/ \E h \in ss, c \in cs : SummaryGetRollCall(h, c)
    \/ \E h \in ss : SummaryStep(h)
    \/ \E h \in hs, c \in cs, u \in Users : Respond(h, c, u)
    \/ \E h \in hs : ResponseStep(h)
    \/ \E h \in hs : CreatePost(h)

\* concurrent invocations in the busy channels
Next == handleRollCall(Handlers, SummaryHandlers, BusyChannels)

Spec == Init /\ [][Next]_vars

\* ------------------------------------- the RollCallManager methods alone
\* Any goroutine calls any of the five methods that write the store, for any
\* channel and any user, in any order.  A method locks r.mu in its first
\* statement and unlocks it when it returns, so concurrent calls take effect
\* one after the other: a call is one step, and the interleavings of the
\* calls of several goroutines are the sequences of calls of one (Caller).
Caller == 1

Call(t, op, r) ==
    /\ Commit(r)
    /\ CriticalSection(t)
    /\ Returned(t, op, r)
    /\ UNCHANGED <<procVars, ghostVars, outsideHandlers>>

CallStartRollCall(t, channelID, initiatorID) ==
    LET r == StartRollCall(channelID, initiatorID)
    IN /\ r.err = ErrNil => clock < MaxSessions
       /\ Call(t, "StartRollCall", r)

CallEndRollCall(t, channelID) == Call(t, "EndRollCall", EndRollCall(channelID))

CallRespondToRollCall(t, channelID, userID) ==
    Call(t, "RespondToRollCall", RespondToRollCall(channelID, userID))

CallMarkUserERPRecorded(t, channelID, userID) ==
    Call(t, "MarkUserERPRecorded", MarkUserERPRecorded(channelID, userID))

CallMarkUserCheckoutRecorded(t, channelID, userID) ==
    Call(t, "MarkUserCheckoutRecorded", MarkUserCheckoutRecorded(channelID, userID))

StoreNext ==
    \/ \E c \in Channels, u \in Initiators : CallStartRollCall(Caller, c, u)
    \/ \E c \in Channels : CallEndRollCall(Caller, c)
    \/ \E c \in Channels, u \in Users : CallRespondToRollCall(Caller, c, u)
    \/ \E c \in Channels, u \in Users : CallMarkUserERPRecorded(Caller, c, u)
    \/ \E c \in Channels, u \in Users : CallMarkUserCheckoutRecorded(Caller, c, u)

SpecStore == Init /\ [][StoreNext]_vars

\* the invocations of the first slot, in every channel
ChannelsNext == handleRollCall(DailyHandlers, DailyHandlers, Channels)

SpecChannels == Init /\ [][ChannelsNext]_vars

\* ------------------------------------------------- EndDailyRollCall
\* The scheduled close.  A position named after a chat-platform call (GetUser,
\* CreatePost) means that call is in flight; "EndRollCall" means the outer
\* loop is about to end its next channel; "IsUserCheckoutRecorded" is the gap
\* between the two status lookups of one member.

\* the function returns: its locals are gone
DailyReturn ==
    /\ dpc' = "idle"
    /\ dActive' = {}
    /\ dChannel' = 1
    /\ dRollCall' = NoRollCall
    /\ dPending' = {}
    /\ dUser' = 1
    /\ dCheckin' = FALSE
    /\ dMembers' = {}
    /\ dSeen' = 0

\* `for _, channelID := range activeChannels`: the next iteration, or the end
DailyNextChannel(active, seen) ==
    IF active = {}
    THEN DailyReturn
    ELSE /\ dpc' = "EndRollCall"
         /\ dActive' = active
         /\ dChannel' = 1
         /\ dRollCall' = NoRollCall
         /\ dPending' = {}
         /\ dUser' = 1
         /\ dCheckin' = FALSE
         /\ dMembers' = {}
         /\ dSeen' = seen

\* `for userID := range rollCall.RespondedIDs`: GetUser for the next key (map
\* order is arbitrary), or, after the last one, CreatePost
DailyNextMember(pending) ==
    /\ dCheckin' = FALSE
    /\ dSeen' = dSeen
    /\ IF pending = {}
       THEN dpc' = "CreatePost" /\ dUser' = 1 /\ dPending' = {}
       ELSE \E userID \in pending :
               dpc' = "GetUser" /\ dUser' = userID /\ dPending' = pending \ {userID}

\* entry: without a bot the function returns at once; otherwise the channels
\* with an Active roll call are collected under the read lock
DailySnapshot ==
    /\ dpc = "idle"
    /\ \E bot \in BOOLEAN :
          IF ~bot
          THEN UNCHANGED <<mu, dailyVars>>
          ELSE /\ ReadSection(DailyThread)
               /\ DailyNextChannel({c \in Channels : Exists(c) /\ activeRollCalls[c].Active},
                                   clock)
    /\ NoCall(DailyThread)
    /\ UNCHANGED <<storeVars, procVars, ghostVars, outsideStore>>

\* EndRollCall for one of the collected channels; an error skips the channel
DailyEndRollCall(channelID) ==
    LET r == EndRollCall(channelID)
    IN /\ dpc = "EndRollCall"
       /\ channelID \in dActive
       /\ Commit(r)
       /\ CriticalSection(DailyThread)
       /\ Returned(DailyThread, "EndRollCall", r)
       /\ IF r.err # ErrNil
          THEN DailyNextChannel(dActive \ {channelID}, dSeen)
          ELSE /\ dActive' = dActive \ {channelID}
               /\ dChannel' = channelID
               /\ dRollCall' = [Addr          |-> r.rollCall,
                                RespondedIDs  |-> activeRollCalls[channelID].RespondedIDs,
                                ResponseCount |-> activeRollCalls[channelID].ResponseCount]
               /\ dMembers' = {}
               /\ DailyNextMember(activeRollCalls[channelID].RespondedIDs)
       /\ UNCHANGED <<procVars, outsideStore>>
       /\ SameGhosts

\* GetUser returns an error: the member is left out (`continue`)
DailyGetUserFails ==
    /\ dpc = "GetUser"
    /\ DailyNextMember(dPending)
    /\ NoCall(DailyThread)
    /\ UNCHANGED <<storeVars, mu, procVars, ghostVars, outsideStore>>
    /\ UNCHANGED <<dActive, dChannel, dRollCall, dMembers>>

\* GetUser returns the user: IsUserERPRecorded(channelID, userID)
DailyGetUserReturns ==
    LET r == IsUserERPRecorded(dChannel, dUser)
    IN /\ dpc = "GetUser"
       /\ ReadSection(DailyThread)
       /\ Returned(DailyThread, "IsUserERPRecorded", r)
       /\ dCheckin' = r.isNewResponse
       /\ dpc' = "IsUserCheckoutRecorded"
       /\ UNCHANGED <<storeVars, procVars, ghostVars, outsideStore>>
       /\ UNCHANGED <<dActive, dChannel, dRollCall, dPending, dUser, dMembers, dSeen>>

\* IsUserCheckoutRecorded(channelID, userID); the member is appended with
\* the marks of the two lookups
DailyCheckoutLookup ==
    LET r == IsUserCheckoutRecorded(dChannel, dUser)
    IN /\ dpc = "IsUserCheckoutRecorded"
       /\ ReadSection(DailyThread)
       /\ Returned(DailyThread, "IsUserCheckoutRecorded", r)
       /\ dMembers' = dMembers \cup {[user |-> dUser, checkIn |-> dCheckin,
                                       checkOut |-> r.isNewResponse]}
       /\ DailyNextMember(dPending)
       /\ UNCHANGED <<storeVars, procVars, ghostVars, outsideStore>>
       /\ UNCHANGED <<dActive, dChannel, dRollCall>>

\* the summary post of EndDailyRollCall: channel, total responses and the
\* members list
Summary ==
    [Addr          |-> dRollCall.Addr,
     ChannelID     |-> dChannel,
     ResponseCount |-> dRollCall.ResponseCount,
     Members       |-> dMembers]

\* CreatePost(Summary) returns; with or without an error the loop goes on
DailyCreatePost ==
    /\ dpc = "CreatePost"
    /\ DailyNextChannel(dActive, dSeen)
    /\ NoCall(DailyThread)
    /\ UNCHANGED <<storeVars, mu, procVars, outsideStore>>
    /\ GhostsPosts(responded, newResponses, checkinCalls, checkinOK,
                   announcements, Posted(summaries, dRollCall.Addr))

\* The scheduled day: roll calls are started, members respond and
\* EndDailyRollCall ends them.
DailyNext ==
    \/ \E h \in DailyHandlers, c \in Channels, u \in Initiators : handleStartRollCall(h, c, u)
    \/ \E h \in DailyHandlers, c \in Channels, u \in Users : Respond(h, c, u)
    \/ \E h \in DailyHandlers : ResponseStep(h)
    \/ \E h \in DailyHandlers : CreatePost(h)
    \/ DailySnapshot
    \/ \E c \in Channels : DailyEndRollCall(c)
    \/ DailyGetUserFails
    \/ DailyGetUserReturns
    \/ DailyCheckoutLookup
    \/ DailyCreatePost

SpecDaily == Init /\ [][DailyNext]_vars

\* The scheduled close beside the end command: both call EndRollCall.
DailyEndNext ==
    \/ \E h \in DailyHandlers, c \in Channels, u \in Initiators : handleStartRollCall(h, c, u)
    \/ \E h \in DailyHandlers, c \in Channels : handleEndRollCall(h, c)
    \/ \E h \in DailyHandlers : handleEndRollCallCounts(h)
    \/ \E h \in DailyHandlers, c \in Channels, u \in DailyEndUsers : Respond(h, c, u)
    \/ \E h \in DailyHandlers : ResponseStep(h)
    \/ \E h \in DailyHandlers : CreatePost(h)
    \/ DailySnapshot
    \/ \E c \in Channels : DailyEndRollCall(c)
    \/ DailyGetUserFails
    \/ DailyGetUserReturns
    \/ DailyCheckoutLookup
    \/ DailyCreatePost

SpecDailyEnd == Init /\ [][DailyEndNext]_vars

\* ------------------------------------------------- StartDailyRollCall
\* The scheduled start.  "StartRollCall" means the loop is about to start the
\* roll call of its next channel, "CreatePost" that the announcement of the
\* channel just started is in flight.

\* bot.mmBot.UserId, the initiator of the scheduled roll calls
BotUserId == 0

\* `for _, channelID := range channelsToPost`: the next iteration, or the end
StartDailyNextChannel(channels) ==
    IF channels = <<>>
    THEN apc' = "idle" /\ aChannels' = <<>> /\ aChannel' = 1
    ELSE apc' = "StartRollCall" /\ aChannels' = channels /\ aChannel' = 1

\* channelsToPost: a []string the access level fills; the Allow branch
\* appends bot.cfg.ChannelIDs as configured, a channel named twice included
ChannelLists ==
    UNION {[1..n -> Channels] : n \in 0..MaxChannelsToPost}

\* entry: the bot and the channel access level give channelsToPost; without
\* a bot, with access None or with no channel the function returns
StartDailyChannels(channelsToPost) ==
    /\ apc = "idle"
    /\ StartDailyNextChannel(channelsToPost)
    /\ NoCall(StartDailyThread)
    /\ UNCHANGED <<storeVars, mu, procVars, ghostVars, dailyVars,
                   cronVars, erpVars, dbVars, matchVars>>

\* StartRollCall for the next channel of the list; an error skips the
\* channel (`continue`), before the announcement is built
StartDailyStartRollCall(channelID) ==
    LET r == StartRollCall(channelID, BotUserId)
    IN /\ apc = "StartRollCall"
       /\ channelID = Head(aChannels)
       /\ r.err = ErrNil => clock < MaxSessions
       /\ Commit(r)
       /\ CriticalSection(StartDailyThread)
       /\ Returned(StartDailyThread, "StartRollCall", r)
       /\ IF r.err # ErrNil
          THEN StartDailyNextChannel(Tail(aChannels))
          ELSE /\ apc' = "CreatePost"
               /\ aChannels' = Tail(aChannels)
               /\ aChannel' = channelID
       /\ UNCHANGED <<procVars, dailyVars, cronVars, erpVars, dbVars, matchVars>>
       /\ SameGhosts

\* CreatePost(announcement) returns; with or without an error the loop goes on
StartDailyCreatePost ==
    /\ apc = "CreatePost"
    /\ StartDailyNextChannel(aChannels)
    /\ NoCall(StartDailyThread)
    /\ UNCHANGED <<storeVars, mu, procVars, dailyVars, cronVars, erpVars, dbVars, matchVars>>
    /\ GhostsPosts(responded, newResponses, checkinCalls, checkinOK,
                   Posted(announcements, activeRollCalls[aChannel].Addr), summaries)

\* The scheduled start beside the start and end commands and the responses.
StartDailyNext ==
    \/ \E h \in DailyHandlers, c \in Channels, u \in Initiators : handleStartRollCall(h, c, u)
    \/ \E h \in DailyHandlers, c \in Channels : handleEndRollCall(h, c)
    \/ \E h \in DailyHandlers : handleEndRollCallCounts(h)
    \/ \E h \in DailyHandlers : CreatePost(h)
    \/ \E channelsToPost \in ChannelLists : StartDailyChannels(channelsToPost)
    \/ \E c \in Channels : StartDailyStartRollCall(c)
    \/ StartDailyCreatePost

SpecStartDaily == Init /\ [][StartDailyNext]_vars

\* ------------------------------------- database-backed roll calls
\* The HTTP handler handleStartRollCall and the tool toolResolveStartRollCall
\* make the same two database calls: GetActiveRollCall, then CreateRollCall.
\* Each call is one statement and one step; nothing spans the two.  After
\* the insert the request waits on the chat platform (the HTTP handler on
\* Channel.Get and then postRollCallAnnouncement, the tool on
\* postRollCallAnnouncement) before it answers; a position named after a
\* call means that call is in flight.

RollCallStatusActive == "active"
RollCallStatusClosed == "closed"

\* SELECT * FROM LLM_RollCalls WHERE ChannelID = ? AND Status = 'active'
\* ... LIMIT 1: the rows that can be returned (none: nil)
GetActiveRollCall(channelID) ==
    {row \in rollCallRows : row.ChannelID = channelID /\ row.Status = RollCallStatusActive}

\* INSERT INTO LLM_RollCalls: a row with a new ID and Status 'active'
CreateRollCall(channelID, id) ==
    rollCallRows \cup {[ID |-> id, ChannelID |-> channelID, Status |-> RollCallStatusActive]}

\* UPDATE LLM_RollCalls SET Status = 'closed' WHERE ID = ?
EndRollCallByID(rollCallID) ==
    {IF row.ID = rollCallID THEN [row EXCEPT !.Status = RollCallStatusClosed] ELSE row :
        row \in rollCallRows}

\* uuid.New(): an ID no row has
NewID == Cardinality(rollCallRows) + 1

\* the answers of a start request: the HTTP status, or the tool's text with
\* whether an error comes with it
StartOK       == "200 roll call"
StartConflict == "409 There is already an active roll call in this channel"
StartFailed   == "500"
ToolStarted       == "Roll call started, nil"
ToolConflict      == "There is already an active roll call in this channel, nil"
ToolCheckFailed   == "Failed to check for active roll calls, err"
ToolStartFailed   == "Failed to start roll call, err"
ToolNoAnnouncement == "Roll call started but failed to post announcement, err"

\* `if existingRollCall != nil { conflict }` of a start request
AfterActiveCheck(existing) == IF existing # {} THEN "idle" ELSE "CreateRollCall"

\* request q answers and returns
Answer(q, answer) ==
    /\ qAnswer' = [qAnswer EXCEPT ![q] = answer]
    /\ qpc' = [qpc EXCEPT ![q] = "idle"]
    /\ qChannel' = [qChannel EXCEPT ![q] = 1]
    /\ qTool' = [qTool EXCEPT ![q] = FALSE]

\* request q goes on to its next call
Await(q, position) ==
    /\ qpc' = [qpc EXCEPT ![q] = position]
    /\ UNCHANGED <<qChannel, qTool, qAnswer>>

\* a start request comes in: GetActiveRollCall fails, finds a roll call
\* (conflict) or finds none
StartRequestCheck(q, channelID, tool) ==
    /\ qpc[q] = "idle"
    /\ UNCHANGED rollCallRows
    /\ \E err \in BOOLEAN :
          IF err
          THEN Answer(q, IF tool THEN ToolCheckFailed ELSE StartFailed)
          ELSE IF AfterActiveCheck(GetActiveRollCall(channelID)) = "idle"
               THEN Answer(q, IF tool THEN ToolConflict ELSE StartConflict)
               ELSE /\ qpc' = [qpc EXCEPT ![q] = "CreateRollCall"]
                    /\ qChannel' = [qChannel EXCEPT ![q] = channelID]
                    /\ qTool' = [qTool EXCEPT ![q] = tool]
                    /\ qAnswer' = [qAnswer EXCEPT ![q] = "none"]
    /\ UNCHANGED <<storeVars, ret, mu, procVars, ghostVars, dailyVars, cronVars,
                   erpVars, startVars, matchVars>>

\* CreateRollCall returns: an error is answered; after the insert the HTTP
\* handler calls Channel.Get, the tool postRollCallAnnouncement
StartRequestCreate(q) ==
    /\ qpc[q] = "CreateRollCall"
    /\ \E err \in BOOLEAN :
          IF err
          THEN /\ Answer(q, IF qTool[q] THEN ToolStartFailed ELSE StartFailed)
               /\ UNCHANGED rollCallRows
          ELSE /\ Cardinality(rollCallRows) < MaxRows
               /\ rollCallRows' = CreateRollCall(qChannel[q], NewID)
               /\ Await(q, IF qTool[q] THEN "postRollCallAnnouncement" ELSE "Channel.Get")
    /\ UNCHANGED <<storeVars, ret, mu, procVars, ghostVars, dailyVars, cronVars,
                   erpVars, startVars, matchVars>>

\* HTTP handler: Channel.Get returns; without a channel the request answers,
\* with one the announcement is posted
StartRequestChannel(q, channelNil) ==
    /\ qpc[q] = "Channel.Get"
    /\ IF channelNil
       THEN Answer(q, StartOK)
       ELSE Await(q, "postRollCallAnnouncement")
    /\ UNCHANGED rollCallRows
    /\ UNCHANGED <<storeVars, ret, mu, procVars, ghostVars, dailyVars, cronVars,
                   erpVars, startVars, matchVars>>

\* postRollCallAnnouncement returns: the HTTP handler drops its error and
\* answers 200, the tool answers with the error although the row is in
StartRequestAnnounce(q, err) ==
    /\ qpc[q] = "postRollCallAnnouncement"
    /\ Answer(q, IF ~qTool[q] THEN StartOK
                 ELSE IF err THEN ToolNoAnnouncement
                 ELSE ToolStarted)
    /\ UNCHANGED rollCallRows
    /\ UNCHANGED <<storeVars, ret, mu, procVars, ghostVars, dailyVars, cronVars,
                   erpVars, startVars, matchVars>>

\* an end request for an active roll call: EndRollCall(rollCallID)
EndRequest(rollCallID) ==
    /\ \E row \in rollCallRows : row.ID = rollCallID /\ row.Status = RollCallStatusActive
    /\ rollCallRows' = EndRollCallByID(rollCallID)
    /\ UNCHANGED <<qpc, qChannel, qTool, qAnswer>>
    /\ UNCHANGED <<storeVars, ret, mu, procVars, ghostVars, dailyVars, cronVars,
                   erpVars, startVars, matchVars>>

DatabaseNext ==
    \/ \E q \in Requests, c \in Channels, tool \in BOOLEAN : StartRequestCheck(q, c, tool)
    \/ \E q \in Requests : StartRequestCreate(q)
    \/ \E q \in Requests, channelNil \in BOOLEAN : StartRequestChannel(q, channelNil)
    \/ \E q \in Requests, err \in BOOLEAN : StartRequestAnnounce(q, err)
    \/ \E id \in RowIDs : EndRequest(id)

SpecDatabase == Init /\ [][DatabaseNext]_vars

\* ------------------------------------------------------ hostnameAllowed
\* longest pattern list of a call
MaxPatterns == 2

\* hostnames of a request: example.com, sub.example.com, an address with a
\* zone ID, a zone ID followed by the wildcard's suffix, evil.org, the ERP
\* system domain, and a hostname that contains the ERP system domain
Hostnames ==
    { <<"example", ".", "com">>,
      <<"sub", ".", "example", ".", "com">>,
      <<"fe80::1", "%", "eth0">>,
      <<"fe80::1", "%", "eth0", ".", "example", ".", "com">>,
      <<"evil", ".", "org">>,
      ERPSystemDomain,
      ERPSystemDomain \o <<".", "evil", ".", "org">> }

\* patterns of an allow-list: "*", "*.example.com", example.com, the address
\* with its zone ID, evil.org
HostPatterns ==
    { <<"*">>,
      <<"*", ".", "example", ".", "com">>,
      <<"example", ".", "com">>,
      <<"fe80::1", "%", "eth0">>,
      <<"evil", ".", "org">> }

PatternLists == UNION {[1..n -> HostPatterns] : n \in 0..MaxPatterns}

CallHostnameAllowed(fn, hostname, allowedPatterns) ==
    /\ match' = [fn |-> fn, hostname |-> hostname, allowedPatterns |-> allowedPatterns,
                  allowed |-> hostnameAllowedOf(fn, hostname, allowedPatterns)]
    /\ UNCHANGED <<storeVars, ret, mu, procVars, ghostVars, dailyVars, cronVars,
                   erpVars, startVars, dbVars>>

\* hostnameAllowed of http_external.go
HostnameAllowedExternal(hostname, allowedPatterns) ==
    CallHostnameAllowed("http_external.go", hostname, allowedPatterns)

\* hostnameAllowed of rollup.go
HostnameAllowedRollup(hostname, allowedPatterns) ==
    CallHostnameAllowed("rollup.go", hostname, allowedPatterns)

HostnameNext ==
    \/ \E hostname \in Hostnames, allowedPatterns \in PatternLists :
          HostnameAllowedExternal(hostname, allowedPatterns)
    \/ \E hostname \in Hostnames, allowedPatterns \in PatternLists :
          HostnameAllowedRollup(hostname, allowedPatterns)

SpecHostname == Init /\ [][HostnameNext]_vars

\* ------------------------------------------------------ CronJob actions
\* clock readings (time of day in the Vietnam zone)
Clock == {TimeOfDay(h, m, s) : h \in Hours, m \in Minutes, s \in Seconds}

\* configurations: unset fields, the two triggers at the same minute, a
\* checkout time with seconds
Configurations ==
    [AutoStartRollCallTime : {EmptyString, TimeOfDay(9, 0, 0)},
     AutoCheckoutTime      : {EmptyString, TimeOfDay(9, 0, 0), TimeOfDay(17, 30, 15)}]

\* mutant: the layout is "15:04:05", the seconds of the clock are kept
Format15_04_00_KeepsSeconds(t) == TimeOfDay(t.h, t.m, t.s)

\* vietTime.Format("15:04:00"): hour and minute, then the literal "00"
Format15_04_00(t) == TimeOfDay(t.h, t.m, 0)

\* the configured trigger time of an action, or its default when unset
Trigger(a) ==
    IF a = "StartDailyRollCall"
    THEN IF cfg.AutoStartRollCallTime = EmptyString
         THEN DefaultRollCallStartTime ELSE cfg.AutoStartRollCallTime
    ELSE IF cfg.AutoCheckoutTime = EmptyString
         THEN DefaultAutoCheckoutTime ELSE cfg.AutoCheckoutTime

\* mutant: a trigger time that has passed is caught up
Due_AtOrAfter(timeStr, trigger) ==
    timeStr.h * 60 + timeStr.m >= trigger.h * 60 + trigger.m

\* `if currentTimeStr == autoStartRollCallTime`, `if currentTimeStr == autoCheckoutTime`
Due(timeStr, trigger) == timeStr = trigger

\* mutant: Start spawns whatever isRunning says
AfterStartCheck_NoCheck(running) == "Start"

\* `if c.isRunning { return }` of Start
AfterStartCheck(running) == IF running THEN "idle" ELSE "Start"

\* `if !c.isRunning { return }` of Stop
AfterStopCheck(running) == IF ~running THEN "idle" ELSE "Stop"

\* positions of a run goroutine inside checkScheduledTasks: the plugin-API
\* call that is in flight
LogError == "LogError: Failed to get Vietnam time"
LogStart == "LogInfo: Starting daily roll call"
LogEnd   == "LogInfo: Ending daily roll call"

\* `if currentTimeStr == autoCheckoutTime`: LogInfo is called, or
\* checkScheduledTasks returns to the select of run
AfterEndTest(timeStr) ==
    IF Due(timeStr, Trigger("EndDailyRollCall")) THEN LogEnd ELSE "select"

\* `if currentTimeStr == autoStartRollCallTime`: LogInfo is called, or the
\* test of the checkout time follows at once
AfterStartTest(timeStr) ==
    IF Due(timeStr, Trigger("StartDailyRollCall")) THEN LogStart ELSE AfterEndTest(timeStr)

\* mutant: the action is called, not started with `go`
LoopAfterGo_Synchronous(next) == "action"

\* the action runs as a goroutine: the run goroutine goes on at once
LoopAfterGo(next) == next

\* currentTimeStr of a run goroutine at its next position: the local is read
\* no more once the last test is made
TimeStrAt(next, timeStr) == IF next \in {LogStart, LogEnd} THEN timeStr ELSE ZeroTime

\* Start reads isRunning
StartCheck(t) ==
    /\ cpc[t] = "idle"
    /\ cpc' = [cpc EXCEPT ![t] = AfterStartCheck(isRunning)]
    /\ lastCall' = IF AfterStartCheck(isRunning) = "idle" THEN "Start: no-op" ELSE lastCall
    /\ UNCHANGED <<isRunning, loop, jobs, currentTimeStr, cfg, tick, produced, fired>>
    /\ UNCHANGED outsideCron

\* c.isRunning = true; go c.run(): the new goroutine waits in its select
StartSpawn(t) ==
    /\ cpc[t] = "Start"
    /\ \E i \in Loops :
          /\ loop[i] = "none"
          /\ \A j \in Loops : j < i => loop[j] # "none"
          /\ loop' = [loop EXCEPT ![i] = "select"]
    /\ isRunning' = TRUE
    /\ cpc' = [cpc EXCEPT ![t] = "idle"]
    /\ lastCall' = "Start"
    /\ UNCHANGED <<jobs, currentTimeStr, cfg, tick, produced, fired>>
    /\ UNCHANGED outsideCron

\* Stop reads isRunning
StopCheck(t) ==
    /\ cpc[t] = "idle"
    /\ cpc' = [cpc EXCEPT ![t] = AfterStopCheck(isRunning)]
    /\ lastCall' = IF AfterStopCheck(isRunning) = "idle" THEN "Stop: no-op" ELSE lastCall
    /\ UNCHANGED <<isRunning, loop, jobs, currentTimeStr, cfg, tick, produced, fired>>
    /\ UNCHANGED outsideCron

\* c.isRunning = false; the send on the unbuffered stopChan then blocks
StopSend(t) ==
    /\ cpc[t] = "Stop"
    /\ isRunning' = FALSE
    /\ cpc' = [cpc EXCEPT ![t] = "send"]
    /\ UNCHANGED <<loop, jobs, currentTimeStr, cfg, lastCall, tick, produced, fired>>
    /\ UNCHANGED outsideCron

\* `case <-c.stopChan: return` of one run goroutine meets the send of one
\* Stop call: the goroutine ends and Stop returns
Receive(i, t) ==
    /\ loop[i] = "select"
    /\ cpc[t] = "send"
    /\ loop' = [loop EXCEPT ![i] = "none"]
    /\ cpc' = [cpc EXCEPT ![t] = "idle"]
    /\ lastCall' = "Stop"
    /\ UNCHANGED <<isRunning, jobs, currentTimeStr, cfg, tick, produced, fired>>
    /\ UNCHANGED outsideCron

\* one more goroutine of an action of which n are running
Started(n) == IF n >= MaxJobs THEN MaxJobs ELSE n + 1

\* `case <-ticker.C: c.checkScheduledTasks()` of one run goroutine, up to its
\* first plugin-API call or to its return; locErr and now are what
\* time.LoadLocation and time.Now give this tick.  The two trigger times are
\* read from the configuration here, before the tests (cfg does not change).
checkScheduledTasks(i, locErr, now) ==
    LET vietTime == GetVietnamTime(locErr, now)
        timeStr  == Format15_04_00(vietTime.t)
        next     == IF vietTime.err THEN LogError ELSE AfterStartTest(timeStr)
    IN /\ loop[i] = "select"
       /\ loop' = [loop EXCEPT ![i] = next]
       /\ currentTimeStr' = [currentTimeStr EXCEPT ![i] = TimeStrAt(next, timeStr)]
       /\ tick' = IF vietTime.err THEN "error" ELSE "time"
       /\ produced' = [a \in Actions |->
                          IF ~locErr /\ Format15_04_00(now) = Trigger(a)
                          THEN Sat(produced[a]) ELSE produced[a]]
       /\ UNCHANGED <<isRunning, cpc, jobs, cfg, lastCall, fired>>
       /\ UNCHANGED outsideCron

\* c.plugin.API.LogError returns; checkScheduledTasks returns to the select
LogErrorReturns(i) ==
    /\ loop[i] = LogError
    /\ loop' = [loop EXCEPT ![i] = "select"]
    /\ UNCHANGED <<isRunning, cpc, jobs, currentTimeStr, cfg, lastCall, tick, produced, fired>>
    /\ UNCHANGED outsideCron

\* LogInfo returns and `go` starts action a; the run goroutine goes to next
Go(i, a, next) ==
    /\ jobs' = [jobs EXCEPT ![a] = Started(@)]
    /\ fired' = [fired EXCEPT ![a] = Sat(@)]
    /\ loop' = [loop EXCEPT ![i] = LoopAfterGo(next)]
    /\ currentTimeStr' = [currentTimeStr EXCEPT ![i] = TimeStrAt(next, @)]
    /\ UNCHANGED <<isRunning, cpc, cfg, lastCall, tick, produced>>
    /\ UNCHANGED outsideCron

\* c.plugin.API.LogInfo("Starting daily roll call") returns;
\* go c.plugin.StartDailyRollCall(); the test of the checkout time
GoStartDailyRollCall(i) ==
    /\ loop[i] = LogStart
    /\ Go(i, "StartDailyRollCall", AfterEndTest(currentTimeStr[i]))

\* c.plugin.API.LogInfo("Ending daily roll call") returns;
\* go c.plugin.EndDailyRollCall(); checkScheduledTasks returns to the select
GoEndDailyRollCall(i) ==
    /\ loop[i] = LogEnd
    /\ Go(i, "EndDailyRollCall", "select")

\* a fired StartDailyRollCall / EndDailyRollCall goroutine ends; of MaxJobs
\* or more, MaxJobs or more or one less than MaxJobs are left
JobDone(a) ==
    /\ jobs[a] > 0
    /\ \E n \in (IF jobs[a] = MaxJobs THEN {MaxJobs - 1, MaxJobs} ELSE {jobs[a] - 1}) :
          jobs' = [jobs EXCEPT ![a] = n]
    /\ UNCHANGED <<isRunning, cpc, loop, currentTimeStr, cfg, lastCall, tick, produced, fired>>
    /\ UNCHANGED outsideCron

CronInit ==
    /\ NewRollCallManager
    /\ NewCronJob
    /\ cfg \in Configurations
    /\ erpCfg = NoERPConfiguration
    /\ revision = "http_external.go"
    /\ NoOutboundCall

CronNext ==
    \/ \E t \in Callers : StartCheck(t)
    \/ \E t \in Callers : StartSpawn(t)
    \/ \E t \in Callers : StopCheck(t)
    \/ \E t \in Callers : StopSend(t)
    \/ \E i \in Loops, t \in Callers : Receive(i, t)
    \/ \E i \in Loops, locErr \in BOOLEAN, now \in Clock : checkScheduledTasks(i, locErr, now)
    \/ \E i \in Loops : LogErrorReturns(i)
    \/ \E i \in Loops : GoStartDailyRollCall(i)
    \/ \E i \in Loops : GoEndDailyRollCall(i)
    \/ \E a \in Actions : JobDone(a)

SpecCron == CronInit /\ [][CronNext]_vars

\* The goroutines are scheduled: a Start or Stop call past its test of the
\* flag takes its next step, the plugin-API calls of checkScheduledTasks
\* return, a fired action ends, and a run goroutine that comes to its select
\* again and again while a stop signal is offered takes it.  Whether and
\* when Start and Stop are called, and when the ticker ticks, is left open.
CronFairness ==
    /\ \A t \in Callers : WF_vars(StartSpawn(t))
    /\ \A t \in Callers : WF_vars(StopSend(t))
    /\ \A t \in Callers : SF_vars(\E i \in Loops : Receive(i, t))
    /\ \A i \in Loops : WF_vars(LogErrorReturns(i) \/ GoStartDailyRollCall(i) \/ GoEndDailyRollCall(i))
    /\ \A a \in Actions : WF_vars(JobDone(a))

SpecCronLive == SpecCron /\ CronFairness

\* ------------------------------------------------ outbound call actions
\* ERP domains: unset, the ERP system, one with port and trailing slash, one
\* without scheme
ERPDomains ==
    { Blank,
      <<"https://">> \o ERPSystemDomain,
      <<"https://", "erp", ".", "example", ":", "8000", "/">>,
      <<"erp", ".", "example">> }

\* AllowedUpstreamHostnames settings: "", " ", "*", "*.example",
\* "jira.example, *.workdone.vn", "evil.example,,example"
AllowedSettings ==
    { Blank,
      <<" ">>,
      <<"*">>,
      <<"*", ".", "example">>,
      <<"jira", ".", "example", ",", " ", "*", ".", "workdone", ".", "vn">>,
      <<"evil", ".", "example", ",", ",", "example">> }

ERPConfigurations ==
    [ERPDomain : ERPDomains,
     ERPAPIKey : {Blank, <<"key">>},
     ERPAPISecret : {Blank, <<"secret">>},
     AllowedUpstreamHostnames : AllowedSettings]

\* hostnames of the Jira instance URLs asked for
InstanceHosts ==
    { ERPSystemDomain,
      ERPSystemDomain \o <<".", "evil", ".", "example">>,
      <<"jira", ".", "example">>,
      <<"evil", ".", "example">>,
      <<"example">>,
      <<"workdone", ".", "vn">>,
      <<"fe80::1", "%", "eth0", ".", "example">> }

\* clock readings of the adapter (Vietnam time of day of the instant)
AdapterClock == {TimeOfDay(8, 0, 0), TimeOfDay(8, 0, 15)}

\* status codes of the responses
Statuses == {200, 201, 304, 400, 500}

\* what the wrapped transport gives back
Responses ==
    {DoError}
        \cup [err : {FALSE}, StatusCode : Statuses, readErr : {TRUE}, body : {"none"}]
        \cup [err : {FALSE}, StatusCode : Statuses, readErr : {FALSE}, body : {"json", "malformed"}]

\* a call begins: client and request are ready for client.Do
BeginCall(op, urlHostname) ==
    /\ eOp' = op
    /\ eReq' = [URL |-> TRUE, Hostname |-> urlHostname]
    /\ eAllowed' = createExternalHTTPClientOf(revision, erpCfg)
    /\ epc' = "RoundTrip"
    /\ eResp' = NoResponse
    /\ eErr' = ErrNil
    /\ eWrapped' = FALSE
    /\ eMarked' = FALSE

\* "Validate configuration" fails: the function returns its error
ConfigMissing(op, position) ==
    /\ eOp' = op
    /\ eErr' = ConfigError(erpCfg)
    /\ epc' = position
    /\ eReq' = NoRequest
    /\ eAllowed' = <<>>
    /\ eResp' = NoResponse
    /\ eWrapped' = FALSE
    /\ eMarked' = FALSE

\* RecordEmployeeCheckin / RecordEmployeeCheckout up to client.Do: the
\* configuration is validated, then the request to the ERP endpoint is built
RecordEmployee(op, locErr, locErrNew, now) ==
    /\ epc = "idle"
    /\ IF ConfigError(erpCfg) # ErrNil
       THEN /\ ConfigMissing(op, "returned")
            /\ eTime' = NoTime
            /\ eClock' = NoClock
       ELSE /\ BeginCall(op, Hostname(TrimSuffix(erpCfg.ERPDomain, <<"/">>) \o ERPEndpointSuffix))
            /\ eTime' = NewEmployeeCheckin(ServerTime(locErr, now), locErrNew, now)
            /\ eClock' = [now |-> now, locErr |-> locErr, locErrNew |-> locErrNew]
    /\ eAttempt' = 0
    /\ UNCHANGED <<erpCfg, revision>>
    /\ UNCHANGED outsideERP

\* getPublicJiraIssues up to the request of client.Issue.Search
getPublicJiraIssues(instanceHost) ==
    /\ epc = "idle"
    /\ BeginCall("getPublicJiraIssues", instanceHost)
    /\ eTime' = NoTime
    /\ eClock' = NoClock
    /\ eAttempt' = 0
    /\ UNCHANGED <<erpCfg, revision>>
    /\ UNCHANGED outsideERP

\* GetEmployeeByChatID up to the client.Do of the first URL format: the
\* configuration is validated, then the GET request is built
GetEmployeeByChatID ==
    /\ epc = "idle"
    /\ IF ConfigError(erpCfg) # ErrNil
       THEN ConfigMissing("GetEmployeeByChatID", "idle") /\ eAttempt' = 0
       ELSE /\ BeginCall("GetEmployeeByChatID",
                         Hostname(TrimSuffix(erpCfg.ERPDomain, <<"/">>) \o ERPResourceSuffix))
            /\ eAttempt' = 1
    /\ eTime' = NoTime
    /\ eClock' = NoClock
    /\ UNCHANGED <<erpCfg, revision>>
    /\ UNCHANGED outsideERP

\* GetEmployeeByChatID after a client.Do: a refused or failed request, an
\* unreadable body, a status of 400 or more, an unparsable body, and before
\* the last URL format a response with no employee of the chat ID, go on to
\* the next URL format (`continue`); anything else returns.  matched is the
\* number of employees of the parsed response whose custom_chat_id is chatID.
GetEmployeeByChatIDReturn(matched) ==
    LET failed == SyncError(eResp) # ErrNil \/ eResp.body = "malformed"
        last == eAttempt = NumURLFormats
    IN /\ epc = "Do returned"
       /\ eOp = "GetEmployeeByChatID"
       /\ failed => matched = 0
       /\ IF (failed \/ matched = 0) /\ ~last
          THEN /\ BeginCall("GetEmployeeByChatID",
                            Hostname(TrimSuffix(erpCfg.ERPDomain, <<"/">>) \o ERPResourceSuffix))
               /\ eAttempt' = eAttempt + 1
          ELSE /\ eErr' = IF failed THEN "failed to get employee with all URL formats tried"
                          ELSE EmployeeError(matched)
               /\ epc' = "idle"
               /\ UNCHANGED <<eOp, eReq, eAllowed, eResp, eWrapped, eMarked, eAttempt>>
       /\ UNCHANGED <<erpCfg, revision, eTime, eClock>>
       /\ UNCHANGED outsideERP

\* restrictedTransport.RoundTrip up to the call of the wrapped transport
RoundTrip ==
    /\ epc = "RoundTrip"
    /\ IF ~eReq.URL \/ ~hostnameAllowedOf(revision, eReq.Hostname, eAllowed)
       THEN /\ eResp' = DoError
            /\ epc' = "Do returned"
            /\ UNCHANGED eWrapped
       ELSE /\ epc' = "wrapped"
            /\ eWrapped' = TRUE
            /\ UNCHANGED eResp
    /\ UNCHANGED <<erpCfg, revision, eAttempt, eOp, eReq, eAllowed, eErr, eMarked, eTime, eClock>>
    /\ UNCHANGED outsideERP

\* t.wrapped.RoundTrip: the network gives an error or a response; a request
\* whose URL has no host is never sent and gets an error
WrappedRoundTrip(resp) ==
    /\ epc = "wrapped"
    /\ eReq.Hostname = Blank => resp = DoError
    /\ eResp' = resp
    /\ epc' = "Do returned"
    /\ UNCHANGED <<erpCfg, revision, eAttempt, eOp, eReq, eAllowed, eErr, eWrapped, eMarked, eTime, eClock>>
    /\ UNCHANGED outsideERP

\* RecordEmployeeCheckin / RecordEmployeeCheckout after client.Do
RecordEmployeeReturn ==
    /\ epc = "Do returned"
    /\ eOp \in ERPOps
    /\ eErr' = SyncError(eResp)
    /\ eTime' = IF SyncError(eResp) # ErrNil THEN NoTime ELSE eTime
    /\ epc' = "returned"
    /\ UNCHANGED <<erpCfg, revision, eAttempt, eOp, eReq, eAllowed, eResp, eWrapped, eMarked, eClock>>
    /\ UNCHANGED outsideERP

\* the err of client.Issue.Search: the request failed or was refused, the
\* status is outside 200..299, or the body cannot be read or decoded
SearchFails(resp) ==
    \/ resp.err
    \/ resp.StatusCode < 200
    \/ resp.StatusCode > 299
    \/ resp.readErr
    \/ resp.body = "malformed"

\* what getPublicJiraIssues returns after the request; issuesNil: the decoded
\* response holds no issue list
JiraError(resp, issuesNil) ==
    IF SearchFails(resp) THEN "failed to get issue"
    ELSE IF issuesNil THEN "failed to get issue: issue not found"
    ELSE ErrNil

\* getPublicJiraIssues after the request
getPublicJiraIssuesReturn(issuesNil) ==
    /\ epc = "Do returned"
    /\ eOp = "getPublicJiraIssues"
    /\ SearchFails(eResp) => ~issuesNil
    /\ eErr' = JiraError(eResp, issuesNil)
    /\ epc' = "idle"
    /\ UNCHANGED <<erpCfg, revision, eAttempt, eOp, eReq, eAllowed, eResp, eWrapped, eMarked, eTime, eClock>>
    /\ UNCHANGED outsideERP

\* the caller of the adapter: `if erpErr != nil { ... } else { Mark...Recorded }`
CallerMarks ==
    /\ epc = "returned"
    /\ eOp \in ERPOps
    /\ eMarked' = (eErr = ErrNil)
    /\ epc' = "idle"
    /\ UNCHANGED <<erpCfg, revision, eAttempt, eOp, eReq, eAllowed, eResp, eErr, eWrapped, eTime, eClock>>
    /\ UNCHANGED outsideERP

ERPInit ==
    /\ NewRollCallManager
    /\ NewCronJob
    /\ cfg = NoConfiguration
    /\ erpCfg \in ERPConfigurations
    /\ revision \in Revisions
    /\ NoOutboundCall

ERPNext ==
    \/ \E op \in ERPOps, locErr \in BOOLEAN, locErrNew \in BOOLEAN, now \in AdapterClock :
          RecordEmployee(op, locErr, locErrNew, now)
    \/ \E instanceHost \in InstanceHosts : getPublicJiraIssues(instanceHost)
    \/ GetEmployeeByChatID
    \/ \E matched \in 0..2 : GetEmployeeByChatIDReturn(matched)
    \/ RoundTrip
    \/ \E resp \in Responses : WrappedRoundTrip(resp)
    \/ RecordEmployeeReturn
    \/ \E issuesNil \in BOOLEAN : getPublicJiraIssuesReturn(issuesNil)
    \/ CallerMarks

SpecERP == ERPInit /\ [][ERPNext]_vars

\* ------------------------------------------------------------- claims
HasActive(c) == Exists(c) /\ activeRollCalls[c].Active

\* addresses of the Active RollCall objects of channel c, in the map or not
ActiveSessions(c) ==
    {activeRollCalls[d].Addr : d \in {d \in Channels : d = c /\ HasActive(d)}}
        \cup {o.Addr : o \in {o \in detached : o.ChannelID = c /\ o.Active}}

\* a handler invocation that responded in session a for user u is still running
InFlight(a, u) == \E h \in Handlers : pc[h] # "idle" /\ hRollCall[h] = a /\ hUser[h] = u

\* a handler's RespondToRollCall call has just returned a repeated response
\* (isNewResponse = false)
RepeatedResponseReturned ==
    \E h \in Handlers :
        ret[h] = [op |-> "RespondToRollCall", err |-> ErrNil, isNewResponse |-> FALSE]

\* C1: in every reachable state at most one active session exists per
\* channel, whatever calls of StartRollCall, EndRollCall, RespondToRollCall,
\* MarkUserERPRecorded and MarkUserCheckoutRecorded were made on whatever
\* channels.
C1_AtMostOneActivePerChannel ==
    \A c \in Channels : Cardinality(ActiveSessions(c)) <= 1

\* C1 witness: channel 1 holds an ended session; channel 2 was started, and
\* a person responded in it and was marked, and a second start on it has just
\* been refused: its session is the one active session of the channel.
C1_Witness ==
    /\ HasActive(2)
    /\ activeRollCalls[2].RespondedIDs = {1}
    /\ activeRollCalls[2].ERPRecordedUsers = {1}
    /\ ret[Caller].op = "StartRollCall"
    /\ ret[Caller].err = ErrAlreadyActive
    /\ Exists(1)
    /\ ~activeRollCalls[1].Active

\* C2: StartRollCall on a channel with an active session returns the conflict
\* error and leaves the store, hence the existing session, unchanged.
C2_StartOnActiveConflicts ==
    [][\A h \in Handlers, c \in Channels, u \in Users :
          (HasActive(c) /\ handleStartRollCall(h, c, u))
              => /\ ret'[h].err = ErrAlreadyActive
                 /\ UNCHANGED storeVars]_vars

\* C2 witness: a start was just refused on a session that has responders.
C2_Witness ==
    /\ \E h \in Handlers : ret[h].op = "StartRollCall" /\ ret[h].err = ErrAlreadyActive
    /\ \E c \in Channels : HasActive(c) /\ activeRollCalls[c].ERPRecordedUsers # {}

\* C3: of all RespondToRollCall calls for one person on one session exactly
\* one returns isNewResponse = true, and the response counter is the number
\* of distinct persons who responded.
C3_ExactlyOneNewResponse ==
    /\ \A a \in Addrs, u \in Users :
          newResponses[a][u] = IF <<a, u>> \in responded THEN 1 ELSE 0
    /\ \A c \in Channels :
          Exists(c) => activeRollCalls[c].ResponseCount =
                          Cardinality({u \in Users : <<activeRollCalls[c].Addr, u>> \in responded})

\* C3 witness: while the invocation that got isNewResponse = true for a person
\* is still running, another call for the same person returned false.
C3_Witness ==
    /\ RepeatedResponseReturned
    /\ \E h \in Handlers, c \in Channels :
          /\ pc[h] = "IsUserERPRecorded"
          /\ HasActive(c)
          /\ hRollCall[h] = activeRollCalls[c].Addr
          /\ activeRollCalls[c].RespondedIDs = {hUser[h]}
          /\ newResponses[hRollCall[h]][hUser[h]] = 1

\* C4: at most one RecordEmployeeCheckin call is issued per person per
\* session (the session the person's response was recorded in).
C4_AtMostOneCheckinCall ==
    \A a \in Addrs, u \in Users : checkinCalls[a][u] <= 1

\* C4 witness: a person's check-in call failed, the invocation returned, and
\* the person then repeated the response, which the one running invocation
\* has just been told is no new response; still one call.
C4_Witness ==
    \E h \in Handlers, c \in Channels, u \in Users :
        /\ ret[h] = [op |-> "RespondToRollCall", err |-> ErrNil, isNewResponse |-> FALSE]
        /\ hChannel[h] = c
        /\ hUser[h] = u
        /\ \A g \in Handlers \ {h} : pc[g] = "idle"
        /\ HasActive(c)
        /\ activeRollCalls[c].RespondedIDs = {u}
        /\ checkinCalls[activeRollCalls[c].Addr][u] = 1
        /\ <<activeRollCalls[c].Addr, u>> \notin checkinOK

\* the check-in call made for u's response in session a failed and the
\* invocation that made it has returned
FailedSync(a, u) ==
    checkinCalls[a][u] >= 1 /\ <<a, u>> \notin checkinOK /\ ~InFlight(a, u)

\* C5: after a failed check-in sync the person is not marked, and a later
\* duplicate "present" message of that person in the same session retries the
\* sync: the handler goes on to a new RecordEmployeeCheckin call.
C5_DuplicateRetriesFailedSync ==
    [][\A h \in Handlers, c \in Channels, u \in Users :
          ( /\ HasActive(c)
            /\ u \in activeRollCalls[c].RespondedIDs
            /\ u \notin activeRollCalls[c].ERPRecordedUsers
            /\ FailedSync(activeRollCalls[c].Addr, u)
            /\ Respond(h, c, u) )
              => pc'[h] \in {"IsUserERPRecorded", "RecordEmployeeCheckin"}]_vars

\* C6: a person is in a session's ERPRecordedUsers only if a
\* RecordEmployeeCheckin call for that person's response in that session
\* succeeded.
C6_MarkedOnlyAfterSuccessfulSync ==
    \A c \in Channels :
        Exists(c) => \A u \in activeRollCalls[c].ERPRecordedUsers :
                        <<activeRollCalls[c].Addr, u>> \in checkinOK

Closed(c) == Exists(c) /\ ~activeRollCalls[c].Active

\* C7: a closed session rejects RespondToRollCall, MarkUserERPRecorded and
\* MarkUserCheckoutRecorded with an error, and its fields no longer change.
C7_ClosedSessionIsFrozen ==
    [][ /\ \A c \in Channels :
             (Closed(c) /\ activeRollCalls'[c].Addr = activeRollCalls[c].Addr)
                 => activeRollCalls'[c] = activeRollCalls[c]
        /\ \A h \in Handlers, c \in Channels, u \in Users :
             (Closed(c) /\ Respond(h, c, u)) => ret'[h].err # ErrNil
        /\ \A h \in Handlers :
             (Closed(hChannel[h]) /\ (CheckinSucceeds(h) \/ CheckoutSucceeds(h)))
                 => ret'[h].err # ErrNil ]_vars

\* C8: RespondToRollCall, EndRollCall, MarkUserERPRecorded and
\* MarkUserCheckoutRecorded on a channel with no active session (no entry, or
\* a closed one) return an error and leave the store unchanged.
C8_NoActiveSessionRejects ==
    [][ /\ \A h \in Handlers, c \in Channels, u \in Users :
             (~HasActive(c) /\ Respond(h, c, u))
                 => ret'[h].err = ErrNoActive /\ UNCHANGED storeVars
        /\ \A h \in Handlers, c \in Channels :
             (~HasActive(c) /\ handleEndRollCall(h, c))
                 => ret'[h].err = ErrNoActive /\ UNCHANGED storeVars
        /\ \A h \in Handlers :
             (~HasActive(hChannel[h]) /\ (CheckinSucceeds(h) \/ CheckoutSucceeds(h)))
                 => ret'[h].err # ErrNil /\ UNCHANGED storeVars ]_vars

\* C9: the response counter equals the cardinality of the responder set.
C9_CountIsCardinality ==
    \A c \in Channels :
        Exists(c) => activeRollCalls[c].ResponseCount =
                        Cardinality(activeRollCalls[c].RespondedIDs)

\* C9 witness: two persons responded and one of them responded again.
C9_Witness ==
    /\ RepeatedResponseReturned
    /\ \E c \in Channels : HasActive(c) /\ activeRollCalls[c].ResponseCount = 2

\* C10: a repeated response returns isNewResponse = false and no error, and
\* leaves the store unchanged.
C10_RepeatedResponseIsNoOp ==
    [][\A h \in Handlers, c \in Channels, u \in Users :
          (HasActive(c) /\ u \in activeRollCalls[c].RespondedIDs /\ Respond(h, c, u))
              => /\ ret'[h] = [op |-> "RespondToRollCall", err |-> ErrNil,
                               isNewResponse |-> FALSE]
                 /\ UNCHANGED storeVars]_vars

\* C10 witness: a repeated response was just answered in a session where the
\* person is already recorded and checked out.
C10_Witness ==
    /\ RepeatedResponseReturned
    /\ \E c \in Channels, u \in Users :
          /\ HasActive(c)
          /\ activeRollCalls[c].RespondedIDs = {u}
          /\ u \in activeRollCalls[c].CheckoutRecordedUsers
          /\ u \in activeRollCalls[c].ERPRecordedUsers

\* C11: a failed check-in sync leaves the person in the responder set, and
\* the summary posted after the close lists that person with the check-in
\* mark absent (checkInSynced = false).
C11_FailedSyncStillInSummary ==
    [][ /\ \A c \in Channels, u \in Users :
             (Exists(c) /\ FailedSync(activeRollCalls[c].Addr, u))
                 => u \in activeRollCalls[c].RespondedIDs
        /\ DailyCreatePost
             => \A u \in Users :
                   FailedSync(dRollCall.Addr, u)
                       => \E m \in Summary.Members : m.user = u /\ ~m.checkIn ]_vars

\* goroutine t has an external call in flight: an ERP call or a
\* chat-platform call of a chat handler, or a chat-platform call of
\* EndDailyRollCall
IOInFlight(t) ==
    \/ t \in Handlers /\ pc[t] \in {"RecordEmployeeCheckin", "RecordEmployeeCheckout",
                                     "User.Get", "CreatePost"}
    \/ t = DailyThread /\ dpc \in {"GetUser", "CreatePost"}

HoldsLock(t) == mu.writer = t \/ t \in mu.readers

\* C17: a goroutine with an external call in flight (ERP sync or chat
\* platform) holds the store lock neither exclusively nor shared.
C17_NoLockAcrossIO ==
    \A t \in Handlers \cup {DailyThread} : IOInFlight(t) => ~HoldsLock(t)

\* C17 witness: EndDailyRollCall waits for GetUser while a response handler
\* waits for RecordEmployeeCheckout, after both went through the store.
C17_Witness ==
    /\ dpc = "GetUser"
    /\ dMembers # {}
    /\ \E h \in Handlers : pc[h] = "RecordEmployeeCheckout"

\* a run goroutine is alive
Alive(i) == loop[i] # "none"

\* C12: whenever the most recent call to return is a Stop that sent the stop
\* signal, no run goroutine is alive any more.
C12_StopReturnsAfterLoopExit ==
    lastCall = "Stop" => \A i \in Loops : ~Alive(i)

\* C13: Start called while isRunning is set returns at once: it spawns no
\* run goroutine and changes neither the flag nor anything running.
C13_StartWhileRunningIsNoOp ==
    [][\A t \in Callers :
          (isRunning /\ StartCheck(t))
              => /\ cpc'[t] = "idle"
                 /\ UNCHANGED <<isRunning, loop, jobs, fired>>]_vars

\* C13 witness: a Start call just returned as a no-op on a scheduler with
\* its one run goroutine, after a tick.
C13_Witness ==
    /\ lastCall = "Start: no-op"
    /\ isRunning
    /\ loop[1] = "select"
    /\ \A i \in Loops : i # 1 => ~Alive(i)
    /\ tick = "time"

\* the run goroutines inside checkScheduledTasks that have matched the
\* trigger time of action a and have not reached its `go` statement yet
Pending(a) ==
    {i \in Loops :
        \/ a = "StartDailyRollCall" /\ loop[i] = LogStart
        \/ a = "EndDailyRollCall" /\ loop[i] = LogEnd
        \/ a = "EndDailyRollCall" /\ loop[i] = LogStart /\ currentTimeStr[i] = Trigger(a)}

\* C14: an action is fired exactly as often as a tick produced the exact
\* "HH:MM:00" string of its trigger time: once for one match, never
\* without a match, whatever other times the ticks produced.  The ticks that
\* matched are the `go` statements executed and the ones the run goroutines
\* inside checkScheduledTasks are about to execute (counts below Many are
\* exact, Many stands for Many or more).
C14_FiresOncePerExactMatch ==
    \A a \in Actions :
        /\ produced[a] < Many => fired[a] + Cardinality(Pending(a)) = produced[a]
        /\ produced[a] = Many => fired[a] + Cardinality(Pending(a)) >= Many

\* C14 witness: trigger "09:00:00"; one tick produced 09:00 and fired the
\* start action once, the other action never matched and never fired, the
\* fired goroutine has ended and no run goroutine is inside a tick.
C14_Witness ==
    /\ cfg.AutoStartRollCallTime = TimeOfDay(9, 0, 0)
    /\ produced["StartDailyRollCall"] = 1
    /\ fired["StartDailyRollCall"] = 1
    /\ produced["EndDailyRollCall"] = 0
    /\ fired["EndDailyRollCall"] = 0
    /\ \A a \in Actions : jobs[a] = 0
    /\ tick = "error"
    /\ \A i \in Loops : loop[i] \in {"none", "select"}

\* C15: a tick whose timezone resolution fails fires nothing and compares
\* nothing, whatever the process-local time is: the run goroutine logs the
\* error and returns from there to its select.
C15_TimezoneFailureSkipsTick ==
    [][\A i \in Loops :
          /\ (\E now \in Clock : checkScheduledTasks(i, TRUE, now))
                => /\ loop'[i] = LogError
                   /\ UNCHANGED <<jobs, fired, produced>>
          /\ (loop[i] = LogError /\ loop'[i] # LogError)
                => /\ loop'[i] = "select"
                   /\ UNCHANGED <<jobs, fired, produced>>]_vars

\* C15 witness: the most recent tick failed to resolve the timezone, with
\* the default trigger times in force, its run goroutine is back at its
\* select and nothing has been fired.
C15_Witness ==
    /\ tick = "error"
    /\ cfg = NoConfiguration
    /\ \A a \in Actions : fired[a] = 0 /\ jobs[a] = 0
    /\ \E i \in Loops : Alive(i)
    /\ \A i \in Loops : loop[i] \in {"none", "select"}

\* a step of run goroutine i inside checkScheduledTasks
InsideTick(i) == LogErrorReturns(i) \/ GoStartDailyRollCall(i) \/ GoEndDailyRollCall(i)

\* C16: while a fired action is still running, no run goroutine waits for
\* it.  A run goroutine at its select can process every next tick, whatever
\* time it reads and whether or not it fires the running action once more,
\* and can receive a pending Stop signal; one inside checkScheduledTasks
\* waits for its plugin-API call only and can take its next step.
C16_FiredActionsDoNotBlockLoop ==
    (\E a \in Actions : jobs[a] > 0)
        => \A i \in Loops :
              Alive(i)
                  => IF loop[i] = "select"
                     THEN /\ \A locErr \in BOOLEAN, now \in Clock :
                                ENABLED checkScheduledTasks(i, locErr, now)
                          /\ \A t \in Callers : cpc[t] = "send" => ENABLED Receive(i, t)
                     ELSE ENABLED InsideTick(i)

\* C16 witness: a tick fired the start action while the goroutine an earlier
\* tick had fired for it was still running, both are running, the run
\* goroutine is back at its select and a Stop call waits on the stop channel.
C16_Witness ==
    /\ jobs["StartDailyRollCall"] = 2
    /\ fired["StartDailyRollCall"] = 2
    /\ \E i \in Loops : loop[i] = "select"
    /\ \E t \in Callers : cpc[t] = "send"

\* the matching rules of the allow-list: "*" matches every hostname, "*.suffix"
\* matches the hostnames ending in ".suffix" that carry no zone ID, any other
\* pattern matches the hostname equal to it
MatchesPattern(hostname, pattern) ==
    \/ pattern = <<"*">>
    \/ /\ HasPrefix(pattern, <<"*", ".">>)
       /\ ~ContainsAny(hostname, {"%"})
       /\ HasSuffix(hostname, Tail(pattern))
    \/ hostname = pattern

\* the hostname matches a pattern of the list, or is the ERP system domain,
\* which belongs to every non-empty list parseAllowedHostnames of rollup.go builds
OnAllowList(hostname, allowedHosts) ==
    \/ \E i \in 1..Len(allowedHosts) : MatchesPattern(hostname, allowedHosts[i])
    \/ hostname = ERPSystemDomain

\* C18: a request whose hostname matches no pattern of the allow-list of its
\* client fails with an error and the wrapped transport is never invoked for
\* it, whatever the hostname (the ERP system domain itself counted as listed).
C18_DisallowedHostFailsClosed ==
    (eReq.URL /\ ~OnAllowList(eReq.Hostname, eAllowed))
        => /\ ~eWrapped
           /\ epc # "wrapped"
           /\ (epc \in {"Do returned", "returned", "idle"} => eResp.err)

\* the external system's answer is a failure: no answer at all, an answer whose
\* body cannot be read, a status outside 200..299, or a malformed body
SyncFailure(resp) ==
    \/ resp.err
    \/ resp.readErr
    \/ resp.StatusCode < 200
    \/ resp.StatusCode > 299
    \/ resp.body = "malformed"

\* C19: when the call to the external system ended in a network failure, a
\* non-2xx status or a malformed response, the adapter returns an error and
\* its caller does not mark the person as synced.
C19_FailureIsSyncError ==
    (eOp \in ERPOps /\ eReq.URL /\ epc \in {"returned", "idle"} /\ SyncFailure(eResp))
        => eErr # ErrNil /\ ~eMarked

\* the required ERP configuration is incomplete
MissingConfig(config) ==
    config.ERPDomain = Blank \/ config.ERPAPIKey = Blank \/ config.ERPAPISecret = Blank

\* C20: with the ERP domain, API key or API secret unset, a sync attempt
\* returns an error at once: no request is built, neither the restricted nor
\* the wrapped transport is invoked, and the person is not marked.
C20_MissingConfigFailsWithoutCall ==
    (eOp \in ERPOps /\ MissingConfig(erpCfg))
        => /\ epc \in {"returned", "idle"}
           /\ eErr # ErrNil
           /\ ~eReq.URL
           /\ ~eWrapped
           /\ ~eMarked

\* C20 witness: a sync attempt was made with domain and key set and the
\* secret unset, and has returned to its caller.
C20_Witness ==
    /\ eOp \in ERPOps
    /\ erpCfg.ERPDomain # Blank
    /\ erpCfg.ERPAPIKey # Blank
    /\ erpCfg.ERPAPISecret = Blank
    /\ epc = "idle"

\* a GetVietnamTime call of the adapter failed
TimezoneFailed == eClock.locErr \/ eClock.locErrNew

\* the response is one the adapter accepts
Accepted(resp) == ~resp.err /\ ~resp.readErr /\ resp.StatusCode < 400

\* C21: a timezone failure during the timestamp computation of a check-in
\* never makes the sync call fail: with an accepted response the call returns
\* no error, and when the Vietnam time cannot be formatted the returned
\* timestamp is the clock reading in the process-local zone.
C21_TimezoneFailureUsesLocalTime ==
    (eOp \in ERPOps /\ epc \in {"returned", "idle"} /\ eReq.URL /\ TimezoneFailed)
        => /\ Accepted(eResp) => eErr = ErrNil
           /\ (eErr = ErrNil /\ eClock.locErrNew) => eTime = Format2006(eClock.now, "Local")
           /\ eErr # ErrNil => eErr = SyncError(eResp)

\* C21 witness: a check-in call in which both GetVietnamTime calls failed got
\* status 200 and returned to its caller, who marked the person.
C21_Witness ==
    /\ eOp = "RecordEmployeeCheckin"
    /\ epc = "idle"
    /\ eClock.locErr /\ eClock.locErrNew
    /\ eResp.StatusCode = 200 /\ ~eResp.readErr
    /\ eMarked

C23_EndReturnsFinalSnapshot ==
    [][ /\ \A h \in Handlers, c \in Channels :
             (HasActive(c) /\ handleEndRollCall(h, c))
                 => /\ ret'[h].err = ErrNil
                    /\ activeRollCalls' =
                          [activeRollCalls EXCEPT ![c] = [activeRollCalls[c] EXCEPT !.Active = FALSE]]
        /\ \A c \in Channels :
             (Closed(c) /\ activeRollCalls'[c].Addr = activeRollCalls[c].Addr)
                 => /\ ~activeRollCalls'[c].Active
                    /\ activeRollCalls'[c].RespondedIDs = activeRollCalls[c].RespondedIDs
                    /\ activeRollCalls'[c].ResponseCount = activeRollCalls[c].ResponseCount ]_vars

\* C23 witness: the session U1 opened on C1, in which U2 alone responded, was
\* just closed: response count 1 and exactly U2 present.
C23_Witness ==
    /\ \E h \in Handlers : ret[h].op = "EndRollCall" /\ ret[h].err = ErrNil
    /\ Closed(1)
    /\ activeRollCalls[1].InitiatorID = 1
    /\ activeRollCalls[1].RespondedIDs = {2}
    /\ activeRollCalls[1].ResponseCount = 1

\* handler invocation h holds the session a store call returned and reads it
HoldsSession(h) == pc[h] \in PointerPositions

\* C24: the session a collaborator got from the store is a copy: while
\* handleRollCallSummary or handleEndRollCall holds the session GetRollCall
\* or EndRollCall returned, no step of another operation changes what it
\* reads in it.
C24_ObservedSessionIsCopy ==
    [][\A h \in Handlers :
          (HoldsSession(h) /\ pc'[h] \in PointerPositions)
              => DerefIn(activeRollCalls', detached', hRollCall[h]) = Deref(hRollCall[h])]_vars

\* u is marked as recorded in the session handler invocation h responded in
MarkedInSession(h) ==
    /\ Exists(hChannel[h])
    /\ activeRollCalls[hChannel[h]].Addr = hRollCall[h]
    /\ hUser[h] \in activeRollCalls[hChannel[h]].ERPRecordedUsers

\* C25: marking an already marked person leaves the store unchanged and the
\* person marked, and once a person is marked in a session no check-in call
\* is issued any more for that person in that session.
C25_MarkIsIdempotent ==
    [][\A h \in Handlers :
          /\ ( /\ Exists(hChannel[h])
               /\ hUser[h] \in activeRollCalls[hChannel[h]].ERPRecordedUsers
               /\ CheckinSucceeds(h) )
                 => /\ UNCHANGED storeVars
                    /\ ret'[h].err = ErrNil
          /\ MarkedInSession(h) => ~CallRecordEmployeeCheckin(h)]_vars

\* the entries of all channels but channelID are what they were
SameElsewhere(channelID) ==
    \A b \in Channels \ {channelID} : activeRollCalls'[b] = activeRollCalls[b]

\* C27: a store operation on one channel (start, end, respond, mark) leaves
\* the session of every other channel unchanged.
C27_ChannelsAreIndependent ==
    [][/\ \A h \in Handlers, c \in Channels, u \in Initiators :
              handleStartRollCall(h, c, u) => SameElsewhere(c)
       /\ \A h \in Handlers, c \in Channels : handleEndRollCall(h, c) => SameElsewhere(c)
       /\ \A h \in Handlers, c \in Channels, u \in Users :
              Respond(h, c, u) => SameElsewhere(c)
       /\ \A h \in Handlers :
              (CheckinSucceeds(h) \/ CheckoutSucceeds(h)) => SameElsewhere(hChannel[h])]_vars

\* channel 2 holds the untouched session it was given before the session of
\* channel 1 was started, answered, marked and ended
C27_Witness ==
    /\ Exists(1) /\ Exists(2)
    /\ activeRollCalls[2] = NewRollCall(2, 1, 1, 1)
    /\ activeRollCalls[1].Addr = 2
    /\ ~activeRollCalls[1].Active
    /\ activeRollCalls[1].RespondedIDs = {1}
    /\ activeRollCalls[1].ERPRecordedUsers = {1}

\* C28: in every session of the store, whoever is marked as recorded in the
\* ERP system has responded in that session.
C28_RecordedHaveResponded ==
    \A c \in Channels :
        Exists(c) => activeRollCalls[c].ERPRecordedUsers \subseteq activeRollCalls[c].RespondedIDs

\* C29: in every session of the store, whoever is marked as checked out is
\* marked as checked in: the check-out of a person is marked only after the
\* check-in of that person was marked in the same session.
C29_CheckoutOnlyAfterCheckin ==
    \A c \in Channels :
        Exists(c) => activeRollCalls[c].CheckoutRecordedUsers
                        \subseteq activeRollCalls[c].ERPRecordedUsers

\* C26: a start on a channel with an active roll call is reported as a
\* conflict and no start announcement is posted: handleStartRollCall replies
\* with the error message, StartDailyRollCall goes on to its next channel
\* without the announcement post.
C26_ConflictPostsNoAnnouncement ==
    [][\A c \in Channels :
          HasActive(c) =>
             /\ \A h \in Handlers, u \in Initiators :
                   handleStartRollCall(h, c, u) =>
                      /\ ret'[h].err = ErrAlreadyActive
                      /\ pc'[h] = "CreatePost"
                      /\ hPost'[h] = Post(ErrorStartingRollCall)
                      /\ UNCHANGED <<storeVars, announcements>>
             /\ \A h \in Handlers :
                   (hPost[h] = Post(ErrorStartingRollCall) /\ CreatePost(h)) =>
                      UNCHANGED <<storeVars, announcements>>
             /\ StartDailyStartRollCall(c) =>
                      /\ ret'[StartDailyThread].err = ErrAlreadyActive
                      /\ apc' # "CreatePost"
                      /\ UNCHANGED <<storeVars, announcements>>]_vars

\* a start has just been refused on a channel; the roll call the scheduled
\* start opened and the one a command opened each have the one announcement
\* of their own start
C26_Witness ==
    /\ \E t \in Threads :
          ret[t] = [op |-> "StartRollCall", err |-> ErrAlreadyActive, isNewResponse |-> FALSE]
    /\ HasActive(1) /\ HasActive(2)
    /\ activeRollCalls[1].InitiatorID = BotUserId
    /\ activeRollCalls[2].InitiatorID = 1
    /\ announcements[activeRollCalls[1].Addr] = 1
    /\ announcements[activeRollCalls[2].Addr] = 1
    /\ apc = "idle"

\* C30: of the EndRollCall calls made on a channel by the end command and by
\* EndDailyRollCall, the one that finds the roll call active ends it and
\* succeeds, every other one gets the no-active-roll-call error and changes
\* nothing, and at most one end summary is posted for a roll call.
C30_OneEndSucceeds ==
    /\ [](\A a \in Addrs : summaries[a] <= 1)
    /\ [][\A c \in Channels, t \in Handlers \cup {DailyThread} :
             (IF t = DailyThread THEN DailyEndRollCall(c) ELSE handleEndRollCall(t, c)) =>
                IF HasActive(c)
                THEN /\ ret'[t].err = ErrNil
                     /\ ~activeRollCalls'[c].Active
                ELSE /\ ret'[t].err = ErrNoActive
                     /\ UNCHANGED <<storeVars, summaries>>]_vars

\* EndDailyRollCall has ended the roll call of channel 1 and its summary is
\* not posted yet; an end command that came in after it was refused
C30_Witness ==
    /\ dpc = "CreatePost"
    /\ dChannel = 1
    /\ ~HasActive(1)
    /\ ~Exists(2)
    /\ summaries[dRollCall.Addr] = 0
    /\ \E h \in Handlers :
          ret[h] = [op |-> "EndRollCall", err |-> ErrNoActive, isNewResponse |-> FALSE]

\* C31: at most one run goroutine is alive at any time, however the Start
\* and Stop calls interleave.
C31_AtMostOneLoopAlive ==
    Cardinality({i \in Loops : Alive(i)}) <= 1

\* C32: every Stop call that is past its test of the flag eventually returns.
C32_StopEventuallyReturns ==
    \A t \in Callers : (cpc[t] \in {"Stop", "send"}) ~> (cpc[t] = "idle")

\* the session of channel c was opened after EndDailyRollCall collected the
\* active channels
OpenedAfterSnapshot(c) == Exists(c) /\ activeRollCalls[c].Addr > dSeen

\* C33: when EndDailyRollCall returns, every session of the store that was
\* active when it collected the active channels is inactive; a summary is
\* posted only for a session it closed itself; a session opened after the
\* collection is left active.
C33_EndsTheSessionsOfItsSnapshot ==
    [][/\ (dpc # "idle" /\ dpc' = "idle") =>
              \A c \in Channels :
                 (activeRollCalls'[c] # NoEntry /\ activeRollCalls'[c].Addr <= dSeen)
                     => ~activeRollCalls'[c].Active
       /\ DailyCreatePost =>
              \A c \in Channels :
                 (Exists(c) /\ activeRollCalls[c].Addr = dRollCall.Addr)
                     => ~activeRollCalls[c].Active
       /\ \A c \in Channels :
              (DailyEndRollCall(c) /\ HasActive(c) /\ OpenedAfterSnapshot(c))
                  => activeRollCalls'[c].Active]_vars

\* C34: StartRollCall on a channel whose session is closed succeeds and
\* installs a fresh session (no responders, count 0, no marks); the first
\* response of a person in the session of the channel is new, and the
\* handler of that response goes on to a check-in call.
C34_RestartInstallsFreshSession ==
    [][/\ \A h \in Handlers, c \in Channels, u \in Initiators :
              (Closed(c) /\ handleStartRollCall(h, c, u)) =>
                 /\ ret'[h].err = ErrNil
                 /\ activeRollCalls'[c] = NewRollCall(c, u, clock + 1, clock + 1)
       /\ \A h \in Handlers, c \in Channels, u \in Users :
              (HasActive(c) /\ u \notin activeRollCalls[c].RespondedIDs /\ Respond(h, c, u)) =>
                 /\ ret'[h].isNewResponse
                 /\ pc'[h] = "IsUserERPRecorded"
       /\ \A h \in Handlers :
              (LookupRecorded(h) /\ activeRollCalls[hChannel[h]].Addr = hRollCall[h]) =>
                 pc'[h] = "GetEmployeeNameFromUser"]_vars

\* C35: a "present" message in a channel with no active roll call has no
\* effect: RespondToRollCall reports the error, the store is unchanged, the
\* handler returns with no check-in call and no post.
C35_NoActiveSessionNoSideEffects ==
    [][\A h \in Handlers, c \in Channels, u \in Users :
          (~HasActive(c) /\ Respond(h, c, u)) =>
             /\ ret'[h].err = ErrNoActive
             /\ pc'[h] = "idle"
             /\ UNCHANGED <<storeVars, procVars, ghostVars>>]_vars

\* a "present" message has just met the closed roll call of channel 1, in
\* which user 1 had responded and was recorded, while no handler is running
C35_Witness ==
    /\ \E h \in Handlers :
          ret[h] = [op |-> "RespondToRollCall", err |-> ErrNoActive, isNewResponse |-> FALSE]
    /\ Closed(1)
    /\ activeRollCalls[1].RespondedIDs = {1}
    /\ activeRollCalls[1].ERPRecordedUsers = {1}
    /\ ~Exists(2)
    /\ \A h \in Handlers : pc[h] = "idle"

\* C36: an action whose trigger time has seconds other than "00" is never
\* fired: no step, whatever the tick reads from the clock, starts it.
C36_TriggerWithSecondsNeverFires ==
    [][\A a \in Actions :
          Trigger(a).s # 0 => /\ fired'[a] = fired[a]
                              /\ jobs'[a] <= jobs[a]]_vars

\* checkout time "17:30:15": ticks have read the clock and fired the start
\* action at its default time, and the end action was never fired
C36_Witness ==
    /\ cfg.AutoCheckoutTime = TimeOfDay(17, 30, 15)
    /\ cfg.AutoStartRollCallTime = EmptyString
    /\ tick = "time"
    /\ fired["StartDailyRollCall"] = Many
    /\ fired["EndDailyRollCall"] = 0

\* the rows of channel c with status active
ActiveRows(c) == GetActiveRollCall(c)

\* C37: however the database-backed start requests on a channel interleave,
\* the channel has at most one roll call row with status active: of the
\* requests that overlap, all but one answer with the conflict.
C37_AtMostOneActiveRow ==
    \A c \in Channels : Cardinality(ActiveRows(c)) <= 1

\* the checkout time is not configured or out of range, the zone does not
\* load, or the time of day has passed when the response is handled
CheckoutTimeUnavailable(configuredTime, locErr, now, frac) ==
    \/ configuredTime = EmptyString
    \/ configuredTime.h > 23
    \/ locErr
    \/ SecondOfDay(now) > SecondOfDay(configuredTime)
    \/ SecondOfDay(now) = SecondOfDay(configuredTime) /\ frac

\* C38: when the check-in of a first response has been synced and the
\* checkout time has passed or cannot be resolved, the handler marks the
\* check-in (the person is marked in the session the channel holds, active
\* or ended), returns
\* with its acknowledgement without reaching the check-out sync call, and
\* the check-out-synced set of every session is what it was.
C38_PassedCheckoutTimeSkipsCheckout ==
    [][\A h \in {h \in Handlers : pc[h] = "RecordEmployeeCheckin"},
          configuredTime \in CheckoutTimes, locErr \in BOOLEAN,
          now \in ResponseTimes, frac \in BOOLEAN :
          ( /\ CheckoutTimeUnavailable(configuredTime, locErr, now, frac)
            /\ CheckinSucceedsAt(h, configuredTime, locErr, now, frac) )
              => /\ ret'[h].op = "MarkUserERPRecorded"
                 /\ Exists(hChannel[h])
                      => hUser[h] \in activeRollCalls'[hChannel[h]].ERPRecordedUsers
                 /\ pc'[h] = "CreatePost"
                 /\ hPost'[h] = Post(AttendanceRecorded)
                 /\ \A c \in Channels :
                      Exists(c) => activeRollCalls'[c].CheckoutRecordedUsers
                                     = activeRollCalls[c].CheckoutRecordedUsers]_vars

\* the handler of person 1 has marked the check-in and is posting its
\* acknowledgement, and person 1 is not in the check-out-synced set
C38_Witness ==
    /\ \E h \in Handlers :
          /\ ret[h] = [op |-> "MarkUserERPRecorded", err |-> ErrNil, isNewResponse |-> FALSE]
          /\ pc[h] = "CreatePost"
          /\ hPost[h] = Post(AttendanceRecorded)
    /\ HasActive(1)
    /\ activeRollCalls[1].RespondedIDs = {1}
    /\ activeRollCalls[1].ERPRecordedUsers = {1}
    /\ activeRollCalls[1].CheckoutRecordedUsers = {}

\* the pattern lists with the patterns of allowedPatterns in any order
Reorderings(allowedPatterns) ==
    LET n == Len(allowedPatterns)
    IN { [i \in 1..n |-> allowedPatterns[f[i]]] :
           f \in {g \in [1..n -> 1..n] : \A i, j \in 1..n : i # j => g[i] # g[j]} }

\* C39: for every hostname and pattern list, hostnameAllowed allows a
\* hostname equal to a pattern of the list (zone ID or not), allows only
\* hostnames its matching rules accept ("*.suffix" for the hostnames ending in
\* ".suffix" that carry no zone ID), and gives the same result for the
\* patterns in any other order.
C39_HostnameMatchingFollowsRules ==
    match # NoMatch =>
        /\ (\E i \in 1..Len(match.allowedPatterns) :
                match.allowedPatterns[i] = match.hostname) => match.allowed
        /\ match.allowed => OnAllowList(match.hostname, match.allowedPatterns)
        /\ \A reordered \in Reorderings(match.allowedPatterns) :
              hostnameAllowedOf(match.fn, match.hostname, reordered) = match.allowed

TypeOK ==
    /\ clock \in 0..MaxSessions
    /\ \A h \in Handlers : pc[h] \in PointerPositions => hRollCall[h] # NilAddr
    /\ \A c \in Channels : activeRollCalls[c].Addr \in 0..clock
====
